---------------------------- MODULE Spec2Model ----------------------------
(***************************************************************************)
(* A model of the lifetime-management layer of the BinaryNinja C++ API     *)
(* (binaryninjaapi.h and the DataBuffer implementation that follows it):   *)
(*   - RefCountObject / Ref<T>, sequentially and under concurrent threads, *)
(*   - DataBuffer over the core's buffer handles,                          *)
(*   - BinaryReader / BinaryWriter cursors over a BinaryView.              *)
(***************************************************************************)
EXTENDS Integers, Sequences, FiniteSets, TLC

(***************************************************************************)
(* Bounds of the model.                                                    *)
(***************************************************************************)
MaxObjs == 3
MaxRefs == 2
NThreads == 2
MaxExtraRefs == 2
NBufs == 2
MaxData == 1
ViewLen == 3
MaxIOLen == 2
MaxCount == 2

(***************************************************************************)
(* RefCountObject and Ref<T>: the heap of reference-counted objects.       *)
(***************************************************************************)
NULL == 0
NoRef == -1

Objs == 1 .. MaxObjs
RefIds == 1 .. MaxRefs

VARIABLES
    objState,   \* object -> "unalloc" | "live" | "deleted"
    m_refs,     \* object -> RefCountObject::m_refs
    deletes,    \* object -> number of times `delete this` ran on it
    everHeld,   \* object -> a Ref has pointed to it at some time
    m_obj,      \* Ref slot -> Ref<T>::m_obj, or NoRef when no Ref lives in the slot
    refLast,    \* the last Ref call: what was called, on which Ref, with what
                \* argument, and what an observer returned
    raw,        \* the raw T* the program has got from a Ref observer and keeps
    win32,      \* the heap as the WIN32 build of AddRef / Release leaves it
    trefs,      \* thread -> how many Refs to the shared object it owns
    tpc,        \* thread -> position inside AddRef / Release
    told,       \* thread -> value returned by its last __sync_fetch_and_add
    tobj,       \* thread -> object its current AddRef / Release works on
    deleter,    \* object -> thread that ran `delete this` (0: none)
    staleAccess,\* a thread touched m_refs of a deleted object
    hstate,     \* core handle -> "unalloc" | "live" | "freed"
    hdata,      \* core handle -> the bytes of the core buffer
    frees,      \* core handle -> number of BNFreeDataBuffer calls on it
    m_buffer,   \* DataBuffer slot -> DataBuffer::m_buffer, or NoBuf
    crashed,    \* the process faulted inside the core on a freed handle
    uaf,        \* a member function passed the core a handle already freed
    last,       \* the last DataBuffer call: what was called and, of ZlibCompress
                \* and ZlibDecompress, on what and with what result
    copied,     \* a DataBuffer has been copied or assigned from another one
    hcap,       \* the handles the core can hand out in this run
    lcap,       \* the longest DataBuffer the modifiers of this run make
    text,       \* the last EscapeString / UnescapeString call: argument and result
    view,       \* the bytes of the BinaryView under the reader and the writer
    rpos,       \* the BinaryReader's offset
    wpos,       \* the BinaryWriter's offset
    ioLast,     \* the last reader / writer call and its outcome
    bview       \* a BinaryView with the default Perform* hooks: its members, the
                \* last hook called on it, the caller's buffer and what came back

refVars == <<objState, m_refs, deletes, everHeld, m_obj, refLast, raw, win32>>
thrVars == <<trefs, tpc, told, tobj, deleter, staleAccess>>
bufVars == <<hstate, hdata, frees, m_buffer, crashed, uaf, last, copied, hcap, lcap,
            text>>
ioVars == <<view, rpos, wpos, ioLast, bview>>
vars == <<refVars, thrVars, bufVars, ioVars>>

Threads == 1 .. NThreads

\* The heap as one record, so that the member functions are operators on it.
Heap == [st |-> objState, refs |-> m_refs, del |-> deletes]

LiveObjs == {o \in Objs : objState[o] = "live"}
LiveRefs == {r \in RefIds : m_obj[r] # NoRef}
RefsTo(o) == {r \in RefIds : m_obj[r] = o}

\* A faulty variant: a constructor that counts its caller as a Ref
NewCountOne(H, o) ==
    [H EXCEPT !.st[o] = "live", !.refs[o] = 1]

\* RefCountObject::RefCountObject(): m_refs(0)
NewRefCountObject(H, o) ==
    [H EXCEPT !.st[o] = "live", !.refs[o] = 0]

\* A faulty variant: the fetch without the add, an update that is lost
FetchAndAddLost(H, o, d) == [old |-> H.refs[o], heap |-> H]

\* __sync_fetch_and_add(&m_refs, d): returns the old value, stores old + d
FetchAndAdd(H, o, d) ==
    [old |-> H.refs[o], heap |-> [H EXCEPT !.refs[o] = @ + d]]

\* A faulty variant: an AddRef that leaves the count alone
AddRefSkipped(H, o) == H

\* RefCountObject::AddRef
AddRef(H, o) == FetchAndAdd(H, o, 1).heap

\* Faulty variants: a test that deletes one Release early, and one that
\* never deletes
ReleaseTestOff(old) == old = 2
ReleaseNever(old) == FALSE

\* The test of RefCountObject::Release on the fetched (old) value:
\*     if (__sync_fetch_and_add(&m_refs, -1) == 1) delete this;
ReleaseDeletes(old) == old = 1

\* A faulty variant: a delete that counts but leaves the object in place
DeleteKeeps(H, o) == [H EXCEPT !.del[o] = @ + 1]

\* delete this
DeleteThis(H, o) ==
    [H EXCEPT !.st[o] = "deleted", !.del[o] = @ + 1]

\* RefCountObject::Release
Release(H, o) ==
    LET fa == FetchAndAdd(H, o, -1)
    IN  IF ReleaseDeletes(fa.old) THEN DeleteThis(fa.heap, o) ELSE fa.heap

\* A faulty variant: two Releases for one
ReleaseTwice(H, p) == IF p # NULL THEN Release(Release(H, p), p) ELSE H

\* `if (m_obj) m_obj->AddRef();` and `if (oldObj) oldObj->Release();`
AddRefIf(H, p) == IF p # NULL THEN AddRef(H, p) ELSE H
ReleaseIf(H, p) == IF p # NULL THEN Release(H, p) ELSE H

\* Ref<T>::operator=(const Ref<T>&) and operator=(T*): AddRef on the new
\* pointer, then Release on the old one.
\* A faulty variant: Release on the old pointer first
ReleaseFirstSteps(H, oldObj, p) ==
    <<H, ReleaseIf(H, oldObj), AddRefIf(ReleaseIf(H, oldObj), p)>>

\* The heap before operator=, between its two calls and after it
AssignSteps(H, oldObj, p) ==
    <<H, AddRefIf(H, p), ReleaseIf(AddRefIf(H, p), oldObj)>>

AssignHeap(H, oldObj, p) == AssignSteps(H, oldObj, p)[3]

SetHeap(H) ==
    /\ objState' = H.st
    /\ m_refs' = H.refs
    /\ deletes' = H.del

Held(p) == IF p # NULL THEN [everHeld EXCEPT ![p] = TRUE] ELSE everHeld

\* A raw T* the program may pass to a Ref while managing objects only through
\* Ref<T>: NULL, or a pointer to an object that has not been deleted.
Pointers == {NULL} \cup Objs
RawPtrs == {NULL} \cup LiveObjs

(***************************************************************************)
(* Ref<T> on one thread: one action per constructor, destructor,           *)
(* assignment operator and observer.                                       *)
(***************************************************************************)

\* A Ref call: its name, the Ref r it is called on, the T* p it is given
\* (of a Ref argument, the pointer stored in it) or returns, and what
\* operator! returns
RefCall(op, r, p, flag) ==
    [op |-> op, r |-> r, p |-> p, oldObj |-> NULL, flag |-> flag]

\* A call of operator=: oldObj is the pointer the Ref stored before
AssignCall(op, r, p, oldObj) ==
    [op |-> op, r |-> r, p |-> p, oldObj |-> oldObj, flag |-> FALSE]

\* new T: the next object of the heap, constructed with m_refs = 0
NewObject(o) ==
    /\ objState[o] = "unalloc"
    /\ \A q \in Objs : q < o => objState[q] # "unalloc"
    /\ SetHeap(NewRefCountObject(Heap, o))
    /\ refLast' = RefCall("new", 0, o, FALSE)
    /\ UNCHANGED <<everHeld, m_obj, raw, win32>>
    /\ UNCHANGED <<thrVars, bufVars, ioVars>>

\* Ref<T>(): m_obj(NULL)
RefDefault(r) ==
    /\ m_obj[r] = NoRef
    /\ m_obj' = [m_obj EXCEPT ![r] = NULL]
    /\ refLast' = RefCall("Ref()", r, NULL, FALSE)
    /\ UNCHANGED <<objState, m_refs, deletes, everHeld, raw, win32>>
    /\ UNCHANGED <<thrVars, bufVars, ioVars>>

\* Ref<T>(T* obj): m_obj(obj) { if (m_obj) m_obj->AddRef(); }
RefFromPtr(r, p) ==
    /\ p \in RawPtrs
    /\ m_obj[r] = NoRef
    /\ m_obj' = [m_obj EXCEPT ![r] = p]
    /\ SetHeap(AddRefIf(Heap, p))
    /\ everHeld' = Held(p)
    /\ refLast' = RefCall("Ref(T*)", r, p, FALSE)
    /\ UNCHANGED <<raw, win32>>
    /\ UNCHANGED <<thrVars, bufVars, ioVars>>

\* Ref<T>(const Ref<T>& obj): m_obj(obj.m_obj) { if (m_obj) m_obj->AddRef(); }
RefCopy(r, s) ==
    /\ m_obj[r] = NoRef
    /\ m_obj[s] # NoRef
    /\ m_obj' = [m_obj EXCEPT ![r] = m_obj[s]]
    /\ SetHeap(AddRefIf(Heap, m_obj[s]))
    /\ everHeld' = Held(m_obj[s])
    /\ refLast' = RefCall("Ref(Ref&)", r, m_obj[s], FALSE)
    /\ UNCHANGED <<raw, win32>>
    /\ UNCHANGED <<thrVars, bufVars, ioVars>>

\* ~Ref<T>() { if (m_obj) m_obj->Release(); }
RefDestroy(r) ==
    /\ m_obj[r] # NoRef
    /\ SetHeap(ReleaseIf(Heap, m_obj[r]))
    /\ m_obj' = [m_obj EXCEPT ![r] = NoRef]
    /\ refLast' = RefCall("~Ref", r, NULL, FALSE)
    /\ UNCHANGED <<everHeld, raw, win32>>
    /\ UNCHANGED <<thrVars, bufVars, ioVars>>

\* Ref<T>& operator=(const Ref<T>& obj), r = s (s may be r itself)
RefAssignRef(r, s) ==
    /\ m_obj[r] # NoRef
    /\ m_obj[s] # NoRef
    /\ m_obj' = [m_obj EXCEPT ![r] = m_obj[s]]
    /\ SetHeap(AssignHeap(Heap, m_obj[r], m_obj[s]))
    /\ everHeld' = Held(m_obj[s])
    /\ refLast' = AssignCall("operator=(Ref&)", r, m_obj[s], m_obj[r])
    /\ UNCHANGED <<raw, win32>>
    /\ UNCHANGED <<thrVars, bufVars, ioVars>>

\* Ref<T>& operator=(T* obj), r = p
RefAssignPtr(r, p) ==
    /\ p \in RawPtrs
    /\ m_obj[r] # NoRef
    /\ m_obj' = [m_obj EXCEPT ![r] = p]
    /\ SetHeap(AssignHeap(Heap, m_obj[r], p))
    /\ everHeld' = Held(p)
    /\ refLast' = AssignCall("operator=(T*)", r, p, m_obj[r])
    /\ UNCHANGED <<raw, win32>>
    /\ UNCHANGED <<thrVars, bufVars, ioVars>>

\* A faulty variant: an observer that lets go of the object it shows
ObserveAndRelease(H, p) == ReleaseIf(H, p)

\* The heap after an observer of a Ref with stored pointer p: no member
\* function of the object is called
Observe(H, p) == H

\* The raw pointer the program keeps once an observer has returned p: the
\* last one that was not null
Keep(p) == IF p # NULL THEN p ELSE raw

\* operator T*() const { return m_obj; }
RefOperatorPtr(r) ==
    /\ m_obj[r] # NoRef
    /\ SetHeap(Observe(Heap, m_obj[r]))
    /\ refLast' = RefCall("operator T*", r, m_obj[r], FALSE)
    /\ raw' = Keep(m_obj[r])
    /\ UNCHANGED <<everHeld, m_obj, win32>>
    /\ UNCHANGED <<thrVars, bufVars, ioVars>>

\* T* operator->() const { return m_obj; }
RefArrow(r) ==
    /\ m_obj[r] # NoRef
    /\ SetHeap(Observe(Heap, m_obj[r]))
    /\ refLast' = RefCall("operator->", r, m_obj[r], FALSE)
    /\ raw' = Keep(m_obj[r])
    /\ UNCHANGED <<everHeld, m_obj, win32>>
    /\ UNCHANGED <<thrVars, bufVars, ioVars>>

\* T& operator*() const { return *m_obj; }, called on a Ref that is not null
RefStar(r) ==
    /\ m_obj[r] \notin {NoRef, NULL}
    /\ SetHeap(Observe(Heap, m_obj[r]))
    /\ refLast' = RefCall("operator*", r, m_obj[r], FALSE)
    /\ UNCHANGED <<everHeld, m_obj, raw, win32>>
    /\ UNCHANGED <<thrVars, bufVars, ioVars>>

\* bool operator!() const { return m_obj == NULL; }
RefNot(r) ==
    /\ m_obj[r] # NoRef
    /\ SetHeap(Observe(Heap, m_obj[r]))
    /\ refLast' = RefCall("operator!", r, NULL, m_obj[r] = NULL)
    /\ UNCHANGED <<everHeld, m_obj, raw, win32>>
    /\ UNCHANGED <<thrVars, bufVars, ioVars>>

\* T* GetPtr() const { return m_obj; }
RefGetPtr(r) ==
    /\ m_obj[r] # NoRef
    /\ SetHeap(Observe(Heap, m_obj[r]))
    /\ refLast' = RefCall("GetPtr", r, m_obj[r], FALSE)
    /\ raw' = Keep(m_obj[r])
    /\ UNCHANGED <<everHeld, m_obj, win32>>
    /\ UNCHANGED <<thrVars, bufVars, ioVars>>

(***************************************************************************)
(* AddRef and Release called directly, in the build without WIN32 (the     *)
(* heap of the other actions) and in the build with WIN32 (win32), both    *)
(* given the same calls.                                                   *)
(***************************************************************************)

\* A faulty variant: a decrement that returns the value it found
InterlockedDecrementOld(H, o) ==
    [new |-> H.refs[o], heap |-> [H EXCEPT !.refs[o] = @ - 1]]

\* InterlockedIncrement((LONG*)&m_refs): stores and returns old + 1
InterlockedIncrement(H, o) ==
    [new |-> H.refs[o] + 1, heap |-> [H EXCEPT !.refs[o] = @ + 1]]

\* InterlockedDecrement((LONG*)&m_refs): stores and returns old - 1
InterlockedDecrement(H, o) ==
    [new |-> H.refs[o] - 1, heap |-> [H EXCEPT !.refs[o] = @ - 1]]

\* RefCountObject::AddRef, #ifdef WIN32
AddRefWin32(H, o) == InterlockedIncrement(H, o).heap

\* RefCountObject::Release, #ifdef WIN32:
\*     if (InterlockedDecrement((LONG*)&m_refs) == 0) delete this;
ReleaseWin32(H, o) ==
    LET dec == InterlockedDecrement(H, o)
    IN  IF dec.new = 0 THEN DeleteThis(dec.heap, o) ELSE dec.heap

\* new T in both builds
BuildsNew(o) ==
    /\ objState[o] = "unalloc" /\ win32.st[o] = "unalloc"
    /\ \A q \in Objs : q < o => objState[q] # "unalloc"
    /\ SetHeap(NewRefCountObject(Heap, o))
    /\ win32' = NewRefCountObject(win32, o)
    /\ refLast' = RefCall("new", 0, o, FALSE)
    /\ UNCHANGED <<everHeld, m_obj, raw>>
    /\ UNCHANGED <<thrVars, bufVars, ioVars>>

\* p->AddRef() in both builds
BuildsAddRef(o) ==
    /\ objState[o] = "live" /\ win32.st[o] = "live"
    /\ m_refs[o] < MaxCount
    /\ SetHeap(AddRef(Heap, o))
    /\ win32' = AddRefWin32(win32, o)
    /\ refLast' = RefCall("AddRef", 0, o, FALSE)
    /\ UNCHANGED <<everHeld, m_obj, raw>>
    /\ UNCHANGED <<thrVars, bufVars, ioVars>>

\* p->Release() in both builds
BuildsRelease(o) ==
    /\ objState[o] = "live" /\ win32.st[o] = "live"
    /\ m_refs[o] > -MaxCount
    /\ SetHeap(Release(Heap, o))
    /\ win32' = ReleaseWin32(win32, o)
    /\ refLast' = RefCall("Release", 0, o, FALSE)
    /\ UNCHANGED <<everHeld, m_obj, raw>>
    /\ UNCHANGED <<thrVars, bufVars, ioVars>>

(***************************************************************************)
(* Ref<T> under threads.  Every thread owns its Refs, all of which hold    *)
(* the one shared object; a thread's Refs differ in nothing, so the state  *)
(* keeps their number.  AddRef and Release are one atomic                  *)
(* __sync_fetch_and_add each; the test of the fetched value and            *)
(* `delete this` follow in a later step.                                   *)
(***************************************************************************)
Shared == 1

\* Ref<T>(const Ref<T>& obj): m_obj(obj.m_obj), up to the call of AddRef
T_CopyCtor(t) ==
    /\ tpc[t] = "idle"
    /\ trefs[t] >= 1
    /\ trefs[t] <= MaxExtraRefs
    /\ trefs' = [trefs EXCEPT ![t] = @ + 1]
    /\ tobj' = [tobj EXCEPT ![t] = Shared]
    /\ tpc' = [tpc EXCEPT ![t] = "addref"]
    /\ UNCHANGED <<objState, m_refs, deletes, told, deleter, staleAccess>>
    /\ UNCHANGED <<everHeld, m_obj, refLast, raw, win32, bufVars, ioVars>>

\* RefCountObject::AddRef: __sync_fetch_and_add(&m_refs, 1)
T_AddRef(t) ==
    /\ tpc[t] = "addref"
    /\ SetHeap(AddRef(Heap, tobj[t]))
    /\ staleAccess' = (staleAccess \/ objState[tobj[t]] # "live")
    /\ tpc' = [tpc EXCEPT ![t] = "idle"]
    /\ tobj' = [tobj EXCEPT ![t] = NULL]
    /\ UNCHANGED <<trefs, told, deleter>>
    /\ UNCHANGED <<everHeld, m_obj, refLast, raw, win32, bufVars, ioVars>>

\* ~Ref<T>(): if (m_obj) m_obj->Release(), up to the call of Release
T_Dtor(t) ==
    /\ tpc[t] = "idle"
    /\ trefs[t] >= 1
    /\ tobj' = [tobj EXCEPT ![t] = Shared]
    /\ tpc' = [tpc EXCEPT ![t] = "release"]
    /\ UNCHANGED <<objState, m_refs, deletes, trefs, told, deleter, staleAccess>>
    /\ UNCHANGED <<everHeld, m_obj, refLast, raw, win32, bufVars, ioVars>>

\* RefCountObject::Release: __sync_fetch_and_add(&m_refs, -1)
T_FetchSub(t) ==
    /\ tpc[t] = "release"
    /\ LET fa == FetchAndAdd(Heap, tobj[t], -1)
       IN  /\ SetHeap(fa.heap)
           /\ told' = [told EXCEPT ![t] = fa.old]
    /\ staleAccess' = (staleAccess \/ objState[tobj[t]] # "live")
    /\ tpc' = [tpc EXCEPT ![t] = "test"]
    /\ UNCHANGED <<trefs, tobj, deleter>>
    /\ UNCHANGED <<everHeld, m_obj, refLast, raw, win32, bufVars, ioVars>>

\* RefCountObject::Release: if (<fetched> == 1) delete this; then the
\* destructor returns and the Ref is gone
T_TestDelete(t) ==
    /\ tpc[t] = "test"
    /\ IF ReleaseDeletes(told[t])
       THEN /\ SetHeap(DeleteThis(Heap, tobj[t]))
            /\ deleter' = [deleter EXCEPT ![tobj[t]] = t]
       ELSE UNCHANGED <<objState, m_refs, deletes, deleter>>
    /\ trefs' = [trefs EXCEPT ![t] = @ - 1]
    /\ tpc' = [tpc EXCEPT ![t] = "idle"]
    /\ told' = [told EXCEPT ![t] = 0]
    /\ tobj' = [tobj EXCEPT ![t] = NULL]
    /\ UNCHANGED staleAccess
    /\ UNCHANGED <<everHeld, m_obj, refLast, raw, win32, bufVars, ioVars>>

(***************************************************************************)
(* The core's data buffers.  A BNDataBuffer* is a handle into the core; a  *)
(* handle is never handed out twice, so that a free of it can be counted.  *)
(***************************************************************************)
NoBuf == -1

\* The handles of a run: one for every DataBuffer and two for the result
\* and the copy of one ZlibCompress or ZlibDecompress.
MaxHandles == NBufs + 2
Handles == 1 .. MaxHandles
BufIds == 1 .. NBufs
InBytes == {0, 65}

\* All byte strings of length n, and of length at most n, over S
RECURSIVE StringsOfLen(_, _)
StringsOfLen(S, n) ==
    IF n = 0 THEN {<<>>}
    ELSE {<<b>> \o t : b \in S, t \in StringsOfLen(S, n - 1)}

StringsUpTo(S, n) == UNION {StringsOfLen(S, k) : k \in 0 .. n}

RECURSIVE SumBytes(_)
SumBytes(s) == IF s = <<>> THEN 0 ELSE Head(s) + SumBytes(Tail(s))

\* The wrapper's and the core's state as one record, so that the member
\* functions are operators on it.
Mem == [st |-> hstate, data |-> hdata, fr |-> frees, buf |-> m_buffer,
        crash |-> crashed, uaf |-> uaf, cap |-> hcap, lim |-> lcap,
        full |-> FALSE]

Unallocated(D) == {h \in Handles : D.st[h] = "unalloc" /\ h <= D.cap}
FreshHandle(D) == CHOOSE h \in Unallocated(D) : \A q \in Unallocated(D) : h <= q

\* BNCreateDataBuffer(data, len): a new core buffer holding the bytes.
\* (full: the run needs more handles than the model has; no action takes
\* such a call.)
BNCreateDataBuffer(D, bytes) ==
    IF Unallocated(D) = {} \/ D.full
    THEN [mem |-> [D EXCEPT !.full = TRUE], h |-> MaxHandles]
    ELSE LET h == FreshHandle(D)
         IN  [mem |-> [D EXCEPT !.st[h] = "live", !.data[h] = bytes], h |-> h]

\* BNDuplicateDataBuffer(buf): a new core buffer with the bytes of buf
BNDuplicateDataBuffer(D, src) == BNCreateDataBuffer(D, D.data[src])

\* BNFreeDataBuffer(buf)
BNFreeDataBuffer(D, h) ==
    [D EXCEPT !.st[h] = "freed", !.fr[h] = @ + 1, !.data[h] = <<>>]

\* BNGetDataBufferLength(buf)
BNGetDataBufferLength(D, h) == Len(D.data[h])

\* BNSetDataBufferLength(buf, len): the first min(old, len) bytes are kept;
\* the bytes beyond the old length are whatever the core puts there (fill)
BNSetDataBufferLength(D, h, len, fill) ==
    LET old == D.data[h]
    IN  [D EXCEPT !.data[h] =
            IF len <= Len(old) THEN SubSeq(old, 1, len)
            ELSE old \o SubSeq(fill, 1, len - Len(old))]

\* BNClearDataBuffer(buf)
BNClearDataBuffer(D, h) == [D EXCEPT !.data[h] = <<>>]

\* BNAppendDataBufferContents(buf, data, len)
BNAppendDataBufferContents(D, h, bytes) == [D EXCEPT !.data[h] = @ \o bytes]

\* BNAppendDataBuffer(dest, src)
BNAppendDataBuffer(D, h, src) == [D EXCEPT !.data[h] = @ \o D.data[src]]

\* BNGetDataBufferSlice(buf, start, len): a new core buffer holding the
\* len bytes from offset start
BNGetDataBufferSlice(D, h, start, len) ==
    BNCreateDataBuffer(D, SubSeq(D.data[h], start + 1, start + len))

\* zlib: a stream is the header byte, the stored length, the bytes and a
\* checksum over them (a stored block).
ZHeader == 120
ZOverhead == 3
ZChecksum(s) == (1 + SumBytes(s)) % 251
ZDeflate(s) == <<ZHeader, Len(s)>> \o s \o <<ZChecksum(s)>>
ZPayload(x) == SubSeq(x, 3, Len(x) - 1)
ZValid(x) ==
    /\ Len(x) >= ZOverhead
    /\ x[1] = ZHeader
    /\ x[2] = Len(x) - ZOverhead
    /\ x[Len(x)] = ZChecksum(ZPayload(x))

\* BNZlibCompress(buf): a new core buffer with the compressed bytes, or
\* NULL when the core cannot compress (fail)
BNZlibCompress(D, h, fail) ==
    IF fail THEN [mem |-> D, h |-> NULL]
    ELSE BNCreateDataBuffer(D, ZDeflate(D.data[h]))

\* BNZlibDecompress(buf): a new core buffer with the decompressed bytes, or
\* NULL when the bytes of buf are no zlib stream
BNZlibDecompress(D, h) ==
    IF ~ZValid(D.data[h]) THEN [mem |-> D, h |-> NULL]
    ELSE BNCreateDataBuffer(D, ZPayload(D.data[h]))

\* The escaping is the core's: what text BNDataBufferToEscapedString makes of
\* a buffer and what bytes BNDecodeEscapedString makes of a text is decided
\* outside the repository, so both are any of the texts and byte strings of
\* the bounds.
CoreTexts == StringsUpTo(InBytes, MaxData + 1)
CoreBytes == StringsUpTo(InBytes, MaxData)

\* BNDataBufferToEscapedString(buf): a char*, the texts it may point to
BNDataBufferToEscapedString(D, h) == CoreTexts

\* BNDecodeEscapedString(str): a new core buffer, the results it may have
BNDecodeEscapedString(D, str) ==
    {BNCreateDataBuffer(D, bytes) : bytes \in CoreBytes}

\* Base64: four characters of the alphabet A-Z a-z 0-9 + / carry three
\* bytes; '=' pads a last group that carries one or two.
PadChar == 61

B64Value(c) ==
    IF c >= 97 THEN c - 71
    ELSE IF c >= 65 THEN c - 65
    ELSE IF c >= 48 THEN c + 4
    ELSE IF c = 43 THEN 62 ELSE 63

B64Group(g) ==
    LET v(i) == IF g[i] = PadChar THEN 0 ELSE B64Value(g[i])
        n == v(1) * 262144 + v(2) * 4096 + v(3) * 64 + v(4)
        all == <<n \div 65536, (n \div 256) % 256, n % 256>>
    IN  IF g[3] = PadChar THEN SubSeq(all, 1, 1)
        ELSE IF g[4] = PadChar THEN SubSeq(all, 1, 2)
        ELSE all

RECURSIVE B64Decode(_)
B64Decode(s) ==
    IF Len(s) < 4 THEN <<>>
    ELSE B64Group(SubSeq(s, 1, 4)) \o B64Decode(SubSeq(s, 5, Len(s)))

\* BNDecodeBase64(str): a new core buffer with the decoded bytes
BNDecodeBase64(D, str) == BNCreateDataBuffer(D, B64Decode(str))

(***************************************************************************)
(* DataBuffer: the member functions as operators on Mem.                   *)
(***************************************************************************)
CapLen == MaxData + ZOverhead
UserData == StringsUpTo(InBytes, MaxData)

\* What a core call on a freed handle may do: fault, or go on with the
\* bytes it finds in the freed memory.
UBOutcomes ==
    {[crash |-> TRUE, bytes |-> <<>>]}
        \cup {[crash |-> FALSE, bytes |-> b] : b \in UserData}
NoUB == [crash |-> FALSE, bytes |-> <<>>]

\* DataBuffer::DataBuffer(): m_buffer = BNCreateDataBuffer(nullptr, 0)
DataBuffer_Ctor(D, d) ==
    LET r == BNCreateDataBuffer(D, <<>>)
    IN  [r.mem EXCEPT !.buf[d] = r.h]

\* DataBuffer::DataBuffer(size_t len) and DataBuffer(const void*, size_t):
\* m_buffer = BNCreateDataBuffer(data, len)
DataBuffer_CtorData(D, d, bytes) ==
    LET r == BNCreateDataBuffer(D, bytes)
    IN  [r.mem EXCEPT !.buf[d] = r.h]

\* A faulty variant: a copy that shares the handle of its source
CopyCtorShallow(D, d, s) == [D EXCEPT !.buf[d] = D.buf[s]]

\* DataBuffer::DataBuffer(const DataBuffer& buf):
\*     m_buffer = BNDuplicateDataBuffer(buf.m_buffer)
DataBuffer_CtorCopy(D, d, s) ==
    LET r == BNDuplicateDataBuffer(D, D.buf[s])
    IN  [r.mem EXCEPT !.buf[d] = r.h]

\* A faulty variant: a constructor that takes a copy of the handle it is given
CtorHandleDuplicates(D, d, h) ==
    [BNDuplicateDataBuffer(D, h).mem EXCEPT
        !.buf[d] = BNDuplicateDataBuffer(D, h).h]

\* DataBuffer::DataBuffer(BNDataBuffer* buf): m_buffer = buf
DataBuffer_CtorHandle(D, d, h) == [D EXCEPT !.buf[d] = h]

\* BNDataBuffer* GetBufferObject() const { return m_buffer; }
DataBuffer_GetBufferObject(D, d) == D.buf[d]

\* DataBuffer::~DataBuffer(): BNFreeDataBuffer(m_buffer)
DataBuffer_Dtor(D, d) ==
    [BNFreeDataBuffer(D, D.buf[d]) EXCEPT !.buf[d] = NoBuf]

\* DataBuffer::operator=(const DataBuffer& buf), buf holding the handle src:
\*     BNFreeDataBuffer(m_buffer);
\*     m_buffer = BNDuplicateDataBuffer(buf.m_buffer);
\* When buf is *this, src has just been freed and the duplication works on
\* a freed handle (ub: what the core does then).
DataBuffer_AssignHandle(D, d, src, ub) ==
    LET D1 == BNFreeDataBuffer(D, D.buf[d])
    IN  IF D1.st[src] = "live"
        THEN LET r == BNDuplicateDataBuffer(D1, src)
             IN  [r.mem EXCEPT !.buf[d] = r.h]
        ELSE IF ub.crash
        THEN [D1 EXCEPT !.uaf = TRUE, !.crash = TRUE]
        ELSE LET r == BNCreateDataBuffer(D1, ub.bytes)
             IN  [r.mem EXCEPT !.buf[d] = r.h, !.uaf = TRUE]

DataBuffer_Assign(D, d, s, ub) == DataBuffer_AssignHandle(D, d, D.buf[s], ub)

\* DataBuffer::GetLength
DataBuffer_GetLength(D, d) == BNGetDataBufferLength(D, D.buf[d])

\* The bytes behind GetData() .. GetData() + GetLength()
DataBuffer_Contents(D, d) == D.data[D.buf[d]]

\* DataBuffer::SetSize
DataBuffer_SetSize(D, d, len, fill) ==
    BNSetDataBufferLength(D, D.buf[d], len, fill)

\* DataBuffer::Clear
DataBuffer_Clear(D, d) == BNClearDataBuffer(D, D.buf[d])

\* DataBuffer::Append(const void* data, size_t len)
DataBuffer_Append(D, d, bytes) ==
    BNAppendDataBufferContents(D, D.buf[d], bytes)

\* DataBuffer::Append(const DataBuffer& buf)
DataBuffer_AppendBuf(D, d, s) == BNAppendDataBuffer(D, D.buf[d], D.buf[s])

\* A faulty variant: an AppendByte that appends the byte twice
AppendByteTwice(D, d, val) == DataBuffer_Append(D, d, <<val, val>>)

\* DataBuffer::AppendByte(uint8_t val): Append(&val, 1)
DataBuffer_AppendByte(D, d, val) == DataBuffer_Append(D, d, <<val>>)

\* DataBuffer::GetSlice, its result constructed in slot d
\* A faulty variant: the slice is handed the receiver's own handle.
GetSliceShares(D, d, s, start, len) == DataBuffer_CtorHandle(D, d, D.buf[s])

DataBuffer_GetSlice(D, d, s, start, len) ==
    LET r == BNGetDataBufferSlice(D, D.buf[s], start, len)
    IN  DataBuffer_CtorHandle(r.mem, d, r.h)

\* DataBuffer::FromEscapedString, its result constructed in slot d
\* a char* read as a C string: the bytes before the first zero byte
RECURSIVE CStr(_)
CStr(s) ==
    IF s = <<>> \/ Head(s) = 0 THEN <<>> ELSE <<Head(s)>> \o CStr(Tail(s))

\* string result = str: the std::string is built from the core's char*
DataBuffer_ToEscapedString(D, d) ==
    {CStr(str) : str \in BNDataBufferToEscapedString(D, D.buf[d])}

\* the core is handed src.c_str()
DataBuffer_FromEscapedString(D, d, str) ==
    {DataBuffer_CtorHandle(r.mem, d, r.h) : r \in BNDecodeEscapedString(D, CStr(str))}

\* DataBuffer::FromBase64, its result constructed in slot d
\* the core is handed src.c_str()
DataBuffer_FromBase64(D, d, str) ==
    LET r == BNDecodeBase64(D, CStr(str))
    IN  DataBuffer_CtorHandle(r.mem, d, r.h)

\* `output = DataBuffer(result);`: the temporary adopts result, output is
\* assigned from it, and the temporary's destructor frees result.
AssignFromTemporary(D, out, result) ==
    BNFreeDataBuffer(DataBuffer_AssignHandle(D, out, result, NoUB), result)

\* A faulty variant: a ZlibCompress that empties output when the core
\* returns no buffer
ZlibCompressClobber(D, a, out, fail) ==
    LET r == BNZlibCompress(D, D.buf[out], fail)
    IN  IF r.h = NULL
        THEN [mem |-> BNClearDataBuffer(D, D.buf[out]), ret |-> FALSE, core |-> r.h]
        ELSE [mem |-> AssignFromTemporary(r.mem, out, r.h), ret |-> TRUE,
              core |-> r.h]

\* DataBuffer::ZlibCompress(DataBuffer& output) const, called on slot a:
\*     BNDataBuffer* result = BNZlibCompress(output.m_buffer);
\*     if (!result) return false;
\*     output = DataBuffer(result); return true;
DataBuffer_ZlibCompress(D, a, out, fail) ==
    LET r == BNZlibCompress(D, D.buf[out], fail)
    IN  IF r.h = NULL
        THEN [mem |-> D, ret |-> FALSE, core |-> r.h]
        ELSE [mem |-> AssignFromTemporary(r.mem, out, r.h), ret |-> TRUE,
              core |-> r.h]

\* DataBuffer::ZlibDecompress(DataBuffer& output) const, called on slot a:
\*     BNDataBuffer* result = BNZlibDecompress(output.m_buffer);
DataBuffer_ZlibDecompress(D, a, out) ==
    LET r == BNZlibDecompress(D, D.buf[out])
    IN  IF r.h = NULL
        THEN [mem |-> D, ret |-> FALSE, core |-> r.h]
        ELSE [mem |-> AssignFromTemporary(r.mem, out, r.h), ret |-> TRUE,
              core |-> r.h]

(***************************************************************************)
(* DataBuffer: one action per member function.                             *)
(***************************************************************************)
LiveBufs == {d \in BufIds : m_buffer[d] # NoBuf}

\* The slot a newly constructed DataBuffer takes: the lowest one without a
\* DataBuffer
NewBuf == {d \in BufIds : m_buffer[d] = NoBuf /\ \A q \in BufIds : q < d => m_buffer[q] # NoBuf}

SetMem(D) ==
    /\ hstate' = D.st
    /\ hdata' = D.data
    /\ frees' = D.fr
    /\ m_buffer' = D.buf
    /\ crashed' = D.crash
    /\ uaf' = D.uaf

\* The calls the model takes: those that fit its handles and lengths
Bounded(D) == ~D.full /\ \A h \in Handles : Len(D.data[h]) <= CapLen
Short(D, d) == D.full \/ Len(D.data[D.buf[d]]) <= D.lim

Call(op, recv, out, ret, core, oldh) ==
    [op |-> op, recv |-> recv, out |-> out, ret |-> ret, core |-> core,
     oldh |-> oldh, len |-> 0, data |-> <<>>]

\* A call with a size_t len or a (data, len) argument, or both
ArgCall(op, recv, len, data) ==
    [Call(op, recv, 0, TRUE, NULL, NULL) EXCEPT !.len = len, !.data = data]

\* The return of a constructor or modifier that was given len and data
ReturnsArg(D, op, recv, len, data) ==
    /\ Bounded(D)
    /\ SetMem(D)
    /\ last' = ArgCall(op, recv, len, data)
    /\ UNCHANGED copied
    /\ UNCHANGED <<hcap, lcap, text, refVars, thrVars, ioVars>>

Returns(D, op, recv, out) ==
    /\ Bounded(D)
    /\ SetMem(D)
    /\ last' = IF op \in {"DataBuffer(buf)", "operator=", "Append(buf)", "GetSlice"}
               THEN Call(op, recv, out, TRUE, NULL, NULL)
               ELSE Call(op, 0, 0, TRUE, NULL, NULL)
    /\ copied' = (copied \/ (op \in {"DataBuffer(buf)", "operator="} /\ recv # out))
    /\ UNCHANGED <<hcap, lcap, text, refVars, thrVars, ioVars>>

Construct(d) ==
    /\ ~crashed /\ d \in NewBuf
    /\ ReturnsArg(DataBuffer_Ctor(Mem, d), "DataBuffer", d, 0, <<>>)

ConstructLen(d, bytes) ==
    /\ ~crashed /\ d \in NewBuf
    /\ ReturnsArg(DataBuffer_CtorData(Mem, d, bytes), "DataBuffer(len)", d,
                  Len(bytes), <<>>)

ConstructData(d, bytes) ==
    /\ ~crashed /\ d \in NewBuf
    /\ ReturnsArg(DataBuffer_CtorData(Mem, d, bytes), "DataBuffer(data,len)", d,
                  Len(bytes), bytes)

ConstructCopy(d, s) ==
    /\ ~crashed /\ d \in NewBuf /\ m_buffer[s] # NoBuf
    /\ Returns(DataBuffer_CtorCopy(Mem, d, s), "DataBuffer(buf)", d, s)

\* DataBuffer(BNDataBuffer*) on a handle the caller has just got from the
\* core and hands over
ConstructHandle(d, bytes) ==
    /\ ~crashed /\ d \in NewBuf
    /\ LET r == BNCreateDataBuffer(Mem, bytes)
       IN  /\ Bounded(r.mem)
           /\ SetMem(DataBuffer_CtorHandle(r.mem, d, r.h))
           /\ last' = Call("DataBuffer(handle)", d, 0, TRUE, r.h, NULL)
           /\ UNCHANGED copied
           /\ UNCHANGED <<hcap, lcap, text, refVars, thrVars, ioVars>>

Destroy(d) ==
    /\ ~crashed /\ m_buffer[d] # NoBuf
    /\ Returns(DataBuffer_Dtor(Mem, d), "~DataBuffer", d, 0)

Assign(d, s) ==
    /\ ~crashed /\ m_buffer[d] # NoBuf /\ m_buffer[s] # NoBuf
    /\ \E ub \in (IF m_buffer[s] = m_buffer[d] THEN UBOutcomes ELSE {NoUB}) :
          Returns(DataBuffer_Assign(Mem, d, s, ub), "operator=", d, s)

\* SetSize(len); the core chooses the bytes beyond the old length
SetSize(d, len) ==
    /\ ~crashed /\ m_buffer[d] # NoBuf
    /\ \E fill \in StringsOfLen(InBytes,
                    IF len > DataBuffer_GetLength(Mem, d)
                    THEN len - DataBuffer_GetLength(Mem, d) ELSE 0) :
          /\ Short(DataBuffer_SetSize(Mem, d, len, fill), d)
          /\ ReturnsArg(DataBuffer_SetSize(Mem, d, len, fill), "SetSize", d, len, <<>>)

Clear(d) ==
    /\ ~crashed /\ m_buffer[d] # NoBuf
    /\ ReturnsArg(DataBuffer_Clear(Mem, d), "Clear", d, 0, <<>>)

AppendData(d, bytes) ==
    /\ ~crashed /\ m_buffer[d] # NoBuf
    /\ Short(DataBuffer_Append(Mem, d, bytes), d)
    /\ ReturnsArg(DataBuffer_Append(Mem, d, bytes), "Append", d, Len(bytes), bytes)

AppendBuf(d, s) ==
    /\ ~crashed /\ m_buffer[d] # NoBuf /\ m_buffer[s] # NoBuf
    /\ Short(DataBuffer_AppendBuf(Mem, d, s), d)
    /\ Returns(DataBuffer_AppendBuf(Mem, d, s), "Append(buf)", d, s)

AppendByte(d, val) ==
    /\ ~crashed /\ m_buffer[d] # NoBuf
    /\ Short(DataBuffer_AppendByte(Mem, d, val), d)
    /\ ReturnsArg(DataBuffer_AppendByte(Mem, d, val), "AppendByte", d, 1, <<val>>)

GetSlice(d, s, start, len) ==
    /\ ~crashed /\ d \in NewBuf /\ m_buffer[s] # NoBuf
    /\ start + len <= DataBuffer_GetLength(Mem, s)
    /\ Returns(DataBuffer_GetSlice(Mem, d, s, start, len), "GetSlice", s, d)

FromEscapedString(d, str) ==
    /\ ~crashed /\ d \in NewBuf
    /\ \E B \in DataBuffer_FromEscapedString(Mem, d, str) :
          Returns(B, "FromEscapedString", d, 0)

StrCall(op, arg, ret) == [op |-> op, arg |-> arg, ret |-> ret]

\* EscapeString(s): DataBuffer buffer(s.c_str(), s.size());
\* return buffer.ToEscapedString(); buffer is destroyed on return
BinaryNinja_EscapeString(D, d, s) ==
    LET B == DataBuffer_CtorData(D, d, s)
    IN  {[ret |-> str, mem |-> DataBuffer_Dtor(B, d)] :
            str \in DataBuffer_ToEscapedString(B, d)}

\* UnescapeString(s): DataBuffer buffer = DataBuffer::FromEscapedString(s);
\* return string(buffer.GetData(), buffer.GetLength()); buffer is destroyed
BinaryNinja_UnescapeString(D, d, s) ==
    {[ret |-> SubSeq(DataBuffer_Contents(B, d), 1, DataBuffer_GetLength(B, d)),
      mem |-> DataBuffer_Dtor(B, d)] : B \in DataBuffer_FromEscapedString(D, d, s)}

StrReturns(r, op, s) ==
    /\ ~r.mem.full
    /\ SetMem(r.mem)
    /\ text' = StrCall(op, s, r.ret)
    /\ UNCHANGED <<last, copied, hcap, lcap, refVars, thrVars, ioVars>>

EscapeString(s) ==
    /\ ~crashed
    /\ \E d \in NewBuf : \E r \in BinaryNinja_EscapeString(Mem, d, s) :
          StrReturns(r, "EscapeString", s)

UnescapeString(s) ==
    /\ ~crashed
    /\ \E d \in NewBuf : \E r \in BinaryNinja_UnescapeString(Mem, d, s) :
          StrReturns(r, "UnescapeString", s)

FromBase64(d, str) ==
    /\ ~crashed /\ d \in NewBuf
    /\ Returns(DataBuffer_FromBase64(Mem, d, str), "FromBase64", d, 0)

ZlibCompress(a, out, fail) ==
    /\ ~crashed /\ m_buffer[a] # NoBuf /\ m_buffer[out] # NoBuf
    /\ LET r == DataBuffer_ZlibCompress(Mem, a, out, fail)
       IN  /\ Bounded(r.mem)
           /\ SetMem(r.mem)
           /\ last' = Call("ZlibCompress", a, out, r.ret, r.core, m_buffer[out])
    /\ UNCHANGED copied
    /\ UNCHANGED <<hcap, lcap, text, refVars, thrVars, ioVars>>

ZlibDecompress(a, out) ==
    /\ ~crashed /\ m_buffer[a] # NoBuf /\ m_buffer[out] # NoBuf
    /\ LET r == DataBuffer_ZlibDecompress(Mem, a, out)
       IN  /\ Bounded(r.mem)
           /\ SetMem(r.mem)
           /\ last' = Call("ZlibDecompress", a, out, r.ret, r.core, m_buffer[out])
    /\ UNCHANGED copied
    /\ UNCHANGED <<hcap, lcap, text, refVars, thrVars, ioVars>>

\* The strings handed to the decoders: "", "A", "\\x00", "\\\\" and
\* "", "QQ==" (A), "AEE=" (NUL A)
EscapedInputs == {<<>>, <<65>>, <<92, 120, 48, 48>>, <<92, 92>>, <<65, 0, 65>>}
Base64Inputs == {<<>>, <<81, 81, 61, 61>>, <<65, 69, 69, 61>>, <<0, 81, 81, 61, 61>>}

(***************************************************************************)
(* BinaryReader and BinaryWriter: a cursor each over the bytes of one      *)
(* BinaryView.  The member functions hand the transfer to the core, which  *)
(* checks it against the bounds of the view.                               *)
(***************************************************************************)
\* A faulty variant: a message that does not say which access failed
WrongException_what == "out of bounds"

\* ReadException::what() and WriteException::what()
ReadException_what == "read out of bounds"
WriteException_what == "write out of bounds"

Offsets == 0 .. (ViewLen + 1)
IOLens == 1 .. MaxIOLen

\* BNReadData(stream, dest, len): all len bytes at the cursor, or nothing
BNReadData(V, pos, len) ==
    IF pos + len <= Len(V)
    THEN [ok |-> TRUE, data |-> SubSeq(V, pos + 1, pos + len), pos |-> pos + len]
    ELSE [ok |-> FALSE, data |-> <<>>, pos |-> pos]

\* BNWriteData(stream, src, len): all len bytes at the cursor, or nothing
BNWriteData(V, pos, bytes) ==
    IF pos + Len(bytes) <= Len(V)
    THEN [ok |-> TRUE,
          view |-> [i \in 1 .. Len(V) |->
                      IF i > pos /\ i <= pos + Len(bytes) THEN bytes[i - pos]
                      ELSE V[i]],
          pos |-> pos + Len(bytes)]
    ELSE [ok |-> FALSE, view |-> V, pos |-> pos]

\* BinaryReader::TryRead(void* dest, size_t len)
BinaryReader_TryRead(V, pos, len) ==
    LET r == BNReadData(V, pos, len)
    IN  [ok |-> r.ok, data |-> r.data, pos |-> r.pos, what |-> ""]

\* BinaryReader::Read(void* dest, size_t len): throws ReadException when
\* the core read fails
BinaryReader_Read(V, pos, len) ==
    LET r == BNReadData(V, pos, len)
    IN  [ok |-> r.ok, data |-> r.data, pos |-> r.pos,
         what |-> IF r.ok THEN "" ELSE ReadException_what]

\* BinaryWriter::TryWrite(const void* src, size_t len)
BinaryWriter_TryWrite(V, pos, bytes) ==
    LET r == BNWriteData(V, pos, bytes)
    IN  [ok |-> r.ok, view |-> r.view, pos |-> r.pos, what |-> ""]

\* BinaryWriter::Write(const void* src, size_t len): throws WriteException
\* when the core write fails
BinaryWriter_Write(V, pos, bytes) ==
    LET r == BNWriteData(V, pos, bytes)
    IN  [ok |-> r.ok, view |-> r.view, pos |-> r.pos,
         what |-> IF r.ok THEN "" ELSE WriteException_what]

\* A faulty variant: a relative seek that takes its argument for the offset
SeekRelativeAbsolute(pos, delta) == delta

\* BinaryReader::Seek(uint64_t offset) and BinaryWriter::Seek: the offset
\* of the cursor afterwards
BinarySeek(pos, offset) == offset

\* BinaryReader::SeekRelative(int64_t offset) and BinaryWriter::SeekRelative
BinarySeekRelative(pos, delta) == pos + delta

\* A reader / writer call: its name, its len (reads and writes) or offset
\* (seeks) argument, and its outcome
IOCall(op, len, ok, what, data) ==
    [op |-> op, len |-> len, arg |-> 0, ok |-> ok, what |-> what, data |-> data]
SeekCall(op, arg) ==
    [op |-> op, len |-> 0, arg |-> arg, ok |-> TRUE, what |-> "", data |-> <<>>]

ReaderSeek(o) ==
    /\ rpos' = BinarySeek(rpos, o)
    /\ ioLast' = SeekCall("Reader.Seek", o)
    /\ UNCHANGED <<view, wpos>>
    /\ UNCHANGED bview
    /\ UNCHANGED <<refVars, thrVars, bufVars>>

ReaderSeekRelative(delta) ==
    /\ rpos + delta \in Offsets
    /\ rpos' = BinarySeekRelative(rpos, delta)
    /\ ioLast' = SeekCall("Reader.SeekRelative", delta)
    /\ UNCHANGED <<view, wpos>>
    /\ UNCHANGED bview
    /\ UNCHANGED <<refVars, thrVars, bufVars>>

TryRead(len) ==
    /\ LET r == BinaryReader_TryRead(view, rpos, len)
       IN  /\ rpos' = r.pos
           /\ ioLast' = IOCall("TryRead", len, r.ok, r.what, r.data)
    /\ UNCHANGED <<view, wpos>>
    /\ UNCHANGED bview
    /\ UNCHANGED <<refVars, thrVars, bufVars>>

Read(len) ==
    /\ LET r == BinaryReader_Read(view, rpos, len)
       IN  /\ rpos' = r.pos
           /\ ioLast' = IOCall("Read", len, r.ok, r.what, r.data)
    /\ UNCHANGED <<view, wpos>>
    /\ UNCHANGED bview
    /\ UNCHANGED <<refVars, thrVars, bufVars>>

WriterSeek(o) ==
    /\ wpos' = BinarySeek(wpos, o)
    /\ ioLast' = SeekCall("Writer.Seek", o)
    /\ UNCHANGED <<view, rpos>>
    /\ UNCHANGED bview
    /\ UNCHANGED <<refVars, thrVars, bufVars>>

WriterSeekRelative(delta) ==
    /\ wpos + delta \in Offsets
    /\ wpos' = BinarySeekRelative(wpos, delta)
    /\ ioLast' = SeekCall("Writer.SeekRelative", delta)
    /\ UNCHANGED <<view, rpos>>
    /\ UNCHANGED bview
    /\ UNCHANGED <<refVars, thrVars, bufVars>>

TryWrite(bytes) ==
    /\ LET r == BinaryWriter_TryWrite(view, wpos, bytes)
       IN  /\ view' = r.view
           /\ wpos' = r.pos
           /\ ioLast' = IOCall("TryWrite", Len(bytes), r.ok, r.what, <<>>)
    /\ UNCHANGED rpos
    /\ UNCHANGED bview
    /\ UNCHANGED <<refVars, thrVars, bufVars>>

Write(bytes) ==
    /\ LET r == BinaryWriter_Write(view, wpos, bytes)
       IN  /\ view' = r.view
           /\ wpos' = r.pos
           /\ ioLast' = IOCall("Write", Len(bytes), r.ok, r.what, <<>>)
    /\ UNCHANGED rpos
    /\ UNCHANGED bview
    /\ UNCHANGED <<refVars, thrVars, bufVars>>

(***************************************************************************)
(* The specifications.  Each runs one part of the layer; the variables of  *)
(* the other parts stay as they are.                                       *)
(***************************************************************************)
RefQuiet ==
    /\ objState = [o \in Objs |-> "unalloc"]
    /\ m_refs = [o \in Objs |-> 0]
    /\ deletes = [o \in Objs |-> 0]
    /\ everHeld = [o \in Objs |-> FALSE]
    /\ m_obj = [r \in RefIds |-> NoRef]
    /\ refLast = RefCall("", 0, NULL, FALSE)
    /\ raw = NULL
    /\ win32 = [st |-> [o \in Objs |-> "unalloc"], refs |-> [o \in Objs |-> 0],
                del |-> [o \in Objs |-> 0]]

ThrQuiet ==
    /\ trefs = [t \in Threads |-> 0]
    /\ tpc = [t \in Threads |-> "idle"]
    /\ told = [t \in Threads |-> 0]
    /\ tobj = [t \in Threads |-> NULL]
    /\ deleter = [o \in Objs |-> 0]
    /\ staleAccess = FALSE

BufEmpty ==
    /\ hstate = [h \in Handles |-> "unalloc"]
    /\ hdata = [h \in Handles |-> <<>>]
    /\ frees = [h \in Handles |-> 0]
    /\ m_buffer = [d \in BufIds |-> NoBuf]
    /\ crashed = FALSE
    /\ uaf = FALSE
    /\ last = Call("", 0, 0, FALSE, NULL, NULL)
    /\ copied = FALSE
    /\ text = StrCall("", <<>>, <<>>)

BufQuiet == BufEmpty /\ hcap = MaxHandles /\ lcap = MaxData

\* ---- BinaryView: the default Perform* hooks ----

\* the members of a BinaryView, as its constructor leaves them
NewBinaryView == [m_view |-> "view", m_file |-> "file"]

\* what a hook hands back: the object, the caller's buffer, and the value
\* returned, by its type (size_t / uint64_t, BNModificationStatus, bool)
HookResult(self, buf, n, status, flag) ==
    [self |-> self, buf |-> buf, n |-> n, status |-> status, flag |-> flag]
NoHook == HookResult(NewBinaryView, <<>>, 0, "", FALSE)

\* A faulty variant: the read fills dest with zero bytes and reports len.
PerformReadFills(self, dest, offset, len) ==
    HookResult(self, [i \in 1 .. len |-> 0], len, "", FALSE)

\* { (void)dest; (void)offset; (void)len; return 0; }
BinaryView_PerformRead(self, dest, offset, len) ==
    HookResult(self, dest, 0, "", FALSE)

\* { (void)offset; (void)data; (void)len; return 0; }
BinaryView_PerformWrite(self, offset, data, len) ==
    HookResult(self, data, 0, "", FALSE)

\* { (void)offset; (void)data; (void)len; return 0; }
BinaryView_PerformInsert(self, offset, data, len) ==
    HookResult(self, data, 0, "", FALSE)

\* { (void)offset; (void)len; return 0; }
BinaryView_PerformRemove(self, offset, len) ==
    HookResult(self, <<>>, 0, "", FALSE)

\* { (void)offset; return Original; }
BinaryView_PerformGetModification(self, offset) ==
    HookResult(self, <<>>, 0, "Original", FALSE)

\* { return 0; }
BinaryView_PerformGetStart(self) == HookResult(self, <<>>, 0, "", FALSE)
BinaryView_PerformGetLength(self) == HookResult(self, <<>>, 0, "", FALSE)
BinaryView_PerformGetEntryPoint(self) == HookResult(self, <<>>, 0, "", FALSE)

\* { return false; }
BinaryView_PerformIsExecutable(self) == HookResult(self, <<>>, 0, "", FALSE)

\* { (void)file; return false; }
BinaryView_PerformSave(self, file) == HookResult(self, <<>>, 0, "", FALSE)

HookCall(self, op, offset, arg, r) ==
    [self |-> self, op |-> op, offset |-> offset, arg |-> arg, r |-> r]

HookReturns(op, offset, arg, r) ==
    /\ bview' = HookCall(r.self, op, offset, arg, r)
    /\ UNCHANGED <<view, rpos, wpos, ioLast>>
    /\ UNCHANGED <<refVars, thrVars, bufVars>>

PerformRead(dest, offset) ==
    HookReturns("PerformRead", offset, dest,
                BinaryView_PerformRead(bview.self, dest, offset, Len(dest)))

PerformWrite(offset, data) ==
    HookReturns("PerformWrite", offset, data,
                BinaryView_PerformWrite(bview.self, offset, data, Len(data)))

PerformInsert(offset, data) ==
    HookReturns("PerformInsert", offset, data,
                BinaryView_PerformInsert(bview.self, offset, data, Len(data)))

PerformRemove(offset, len) ==
    HookReturns("PerformRemove", offset, <<len>>,
                BinaryView_PerformRemove(bview.self, offset, len))

PerformGetModification(offset) ==
    HookReturns("PerformGetModification", offset, <<>>,
                BinaryView_PerformGetModification(bview.self, offset))

PerformGetStart ==
    HookReturns("PerformGetStart", 0, <<>>, BinaryView_PerformGetStart(bview.self))

PerformGetLength ==
    HookReturns("PerformGetLength", 0, <<>>, BinaryView_PerformGetLength(bview.self))

PerformGetEntryPoint ==
    HookReturns("PerformGetEntryPoint", 0, <<>>,
                BinaryView_PerformGetEntryPoint(bview.self))

PerformIsExecutable ==
    HookReturns("PerformIsExecutable", 0, <<>>,
                BinaryView_PerformIsExecutable(bview.self))

PerformSave(file) ==
    HookReturns("PerformSave", 0, <<file>>, BinaryView_PerformSave(bview.self, file))

IoQuiet ==
    /\ view = <<>>
    /\ rpos = 0
    /\ wpos = 0
    /\ ioLast = IOCall("", 0, FALSE, "", <<>>)
    /\ bview = HookCall(NewBinaryView, "", 0, <<>>, NoHook)

\* Ref<T> on one thread
RefInit == RefQuiet /\ ThrQuiet /\ BufQuiet /\ IoQuiet

RefNext ==
    \/ \E o \in Objs : NewObject(o)
    \/ \E r \in RefIds : RefDefault(r)
    \/ \E r \in RefIds : \E p \in Pointers : RefFromPtr(r, p)
    \/ \E r \in RefIds : \E s \in RefIds : RefCopy(r, s)
    \/ \E r \in RefIds : RefDestroy(r)
    \/ \E r \in RefIds : \E s \in RefIds : RefAssignRef(r, s)
    \/ \E r \in RefIds : \E p \in Pointers : RefAssignPtr(r, p)

SpecRef == RefInit /\ [][RefNext]_vars

\* Ref<T> on one thread, with the observers, and the raw pointers they
\* return kept by the program; the program allocates one object fewer here
ObsNext ==
    \/ \E o \in 1 .. (MaxObjs - 1) : NewObject(o)
    \/ \E r \in RefIds : RefDefault(r)
    \/ \E r \in RefIds : \E p \in Pointers : RefFromPtr(r, p)
    \/ \E r \in RefIds : \E s \in RefIds : RefCopy(r, s)
    \/ \E r \in RefIds : RefDestroy(r)
    \/ \E r \in RefIds : \E s \in RefIds : RefAssignRef(r, s)
    \/ \E r \in RefIds : \E p \in Pointers : RefAssignPtr(r, p)
    \/ \E r \in RefIds : RefOperatorPtr(r)
    \/ \E r \in RefIds : RefArrow(r)
    \/ \E r \in RefIds : RefStar(r)
    \/ \E r \in RefIds : RefNot(r)
    \/ \E r \in RefIds : RefGetPtr(r)

SpecObs == RefInit /\ [][ObsNext]_vars

\* AddRef and Release called directly on objects, in both builds
BuildsNext ==
    \/ \E o \in Objs : BuildsNew(o)
    \/ \E o \in Objs : BuildsAddRef(o)
    \/ \E o \in Objs : BuildsRelease(o)

SpecBuilds == RefInit /\ [][BuildsNext]_vars

\* Ref<T> under threads: the shared object is alive and every thread holds
\* one Ref to it.
ThreadsInit ==
    /\ objState = [o \in Objs |-> IF o = Shared THEN "live" ELSE "unalloc"]
    /\ m_refs = [o \in Objs |-> IF o = Shared THEN NThreads ELSE 0]
    /\ deletes = [o \in Objs |-> 0]
    /\ everHeld = [o \in Objs |-> o = Shared]
    /\ m_obj = [r \in RefIds |-> NoRef]
    /\ refLast = RefCall("", 0, NULL, FALSE)
    /\ raw = NULL
    /\ win32 = [st |-> [o \in Objs |-> "unalloc"], refs |-> [o \in Objs |-> 0],
                del |-> [o \in Objs |-> 0]]
    /\ trefs = [t \in Threads |-> 1]
    /\ tpc = [t \in Threads |-> "idle"]
    /\ told = [t \in Threads |-> 0]
    /\ tobj = [t \in Threads |-> NULL]
    /\ deleter = [o \in Objs |-> 0]
    /\ staleAccess = FALSE
    /\ BufQuiet /\ IoQuiet

ThreadsNext ==
    \/ \E t \in Threads : T_CopyCtor(t)
    \/ \E t \in Threads : T_AddRef(t)
    \/ \E t \in Threads : T_Dtor(t)
    \/ \E t \in Threads : T_FetchSub(t)
    \/ \E t \in Threads : T_TestDelete(t)

SpecThreads == ThreadsInit /\ [][ThreadsNext]_vars

\* DataBuffer
BufInit == RefQuiet /\ ThrQuiet /\ BufQuiet /\ IoQuiet

BufNext ==
    \/ \E d \in BufIds : Construct(d)
    \/ \E d \in BufIds : \E n \in 0 .. MaxData :
          \E bytes \in StringsOfLen(InBytes, n) : ConstructLen(d, bytes)
    \/ \E d \in BufIds : \E bytes \in UserData : ConstructData(d, bytes)
    \/ \E d \in BufIds : \E s \in BufIds : ConstructCopy(d, s)
    \/ \E d \in BufIds : \E bytes \in UserData : ConstructHandle(d, bytes)
    \/ \E d \in BufIds : Destroy(d)
    \/ \E d \in BufIds : \E s \in BufIds : Assign(d, s)
    \/ \E d \in BufIds : \E n \in 0 .. MaxData : SetSize(d, n)
    \/ \E d \in BufIds : Clear(d)
    \/ \E d \in BufIds : \E bytes \in UserData : AppendData(d, bytes)
    \/ \E d \in BufIds : \E s \in BufIds : AppendBuf(d, s)
    \/ \E d \in BufIds : \E v \in InBytes : AppendByte(d, v)
    \/ \E d \in BufIds : \E s \in BufIds :
          \E start \in 0 .. CapLen : \E n \in 0 .. CapLen :
             GetSlice(d, s, start, n)
    \/ \E d \in BufIds : \E str \in EscapedInputs : FromEscapedString(d, str)
    \/ \E d \in BufIds : \E str \in Base64Inputs : FromBase64(d, str)
    \/ \E a \in BufIds : \E out \in BufIds : \E fail \in BOOLEAN :
          ZlibCompress(a, out, fail)
    \/ \E a \in BufIds : \E out \in BufIds : ZlibDecompress(a, out)

SpecBuf == BufInit /\ [][BufNext]_vars

\* DataBuffer as a value: construction, copy, assignment between two
\* DataBuffers, the modifying member functions and destruction
ValueNext ==
    \/ \E d \in BufIds : Construct(d)
    \/ \E d \in BufIds : \E bytes \in UserData : ConstructData(d, bytes)
    \/ \E d \in BufIds : \E s \in BufIds : ConstructCopy(d, s)
    \/ \E d \in BufIds : Destroy(d)
    \/ \E d \in BufIds : \E s \in BufIds \ {d} : Assign(d, s)
    \/ \E d \in BufIds : \E n \in 0 .. MaxData : SetSize(d, n)
    \/ \E d \in BufIds : Clear(d)
    \/ \E d \in BufIds : \E s \in BufIds : AppendBuf(d, s)
    \/ \E d \in BufIds : \E v \in InBytes : AppendByte(d, v)

\* One handle for every DataBuffer and one more
ValueInit ==
    /\ RefQuiet /\ ThrQuiet /\ IoQuiet
    /\ BufEmpty /\ hcap = NBufs + 1 /\ lcap = MaxData

SpecValue == ValueInit /\ [][ValueNext]_vars

\* The constructors of DataBuffer and its destructor
CtorNext ==
    \/ \E d \in BufIds : Construct(d)
    \/ \E d \in BufIds : \E n \in 0 .. MaxData :
          \E bytes \in StringsOfLen(InBytes, n) : ConstructLen(d, bytes)
    \/ \E d \in BufIds : \E bytes \in UserData : ConstructData(d, bytes)
    \/ \E d \in BufIds : \E s \in BufIds : ConstructCopy(d, s)
    \/ \E d \in BufIds : \E bytes \in UserData : ConstructHandle(d, bytes)
    \/ \E d \in BufIds : Destroy(d)

SpecCtor == BufInit /\ [][CtorNext]_vars

\* The modifying member functions on DataBuffers constructed from data, up
\* to one byte longer than elsewhere
MutInit ==
    /\ RefQuiet /\ ThrQuiet /\ IoQuiet
    /\ hstate = [h \in Handles |-> IF h <= NBufs THEN "live" ELSE "unalloc"]
    /\ \E contents \in [BufIds -> StringsUpTo(InBytes, MaxData + 1)] :
          hdata = [h \in Handles |-> IF h <= NBufs THEN contents[h] ELSE <<>>]
    /\ frees = [h \in Handles |-> 0]
    /\ m_buffer = [d \in BufIds |-> d]
    /\ crashed = FALSE
    /\ uaf = FALSE
    /\ last = Call("", 0, 0, FALSE, NULL, NULL)
    /\ copied = FALSE
    /\ text = StrCall("", <<>>, <<>>)
    /\ hcap = MaxHandles /\ lcap = MaxData + 1

MutNext ==
    \/ \E d \in BufIds : \E n \in 0 .. (MaxData + 1) : SetSize(d, n)
    \/ \E d \in BufIds : Clear(d)
    \/ \E d \in BufIds : \E bytes \in UserData : AppendData(d, bytes)
    \/ \E d \in BufIds : \E s \in BufIds : AppendBuf(d, s)
    \/ \E d \in BufIds : \E v \in InBytes : AppendByte(d, v)

SpecMut == MutInit /\ [][MutNext]_vars

\* DataBuffer::GetSlice: one DataBuffer constructed from data; every other
\* DataBuffer of the run is a slice of one that lives.
SliceInit ==
    /\ RefQuiet /\ ThrQuiet /\ IoQuiet
    /\ hstate = [h \in Handles |-> IF h = 1 THEN "live" ELSE "unalloc"]
    /\ \E bytes \in StringsUpTo(InBytes, MaxData + 1) :
          hdata = [h \in Handles |-> IF h = 1 THEN bytes ELSE <<>>]
    /\ frees = [h \in Handles |-> 0]
    /\ m_buffer = [d \in BufIds |-> IF d = 1 THEN 1 ELSE NoBuf]
    /\ crashed = FALSE
    /\ uaf = FALSE
    /\ last = Call("", 0, 0, FALSE, NULL, NULL)
    /\ copied = FALSE
    /\ text = StrCall("", <<>>, <<>>)
    /\ hcap = NBufs + 1 /\ lcap = MaxData + 1

SliceNext ==
    \/ \E d \in BufIds : \E s \in BufIds :
          \E start \in 0 .. (MaxData + 1) : \E n \in 0 .. (MaxData + 1) :
             GetSlice(d, s, start, n)
    \/ \E d \in BufIds : Clear(d)
    \/ \E d \in BufIds : \E v \in InBytes : AppendByte(d, v)
    \/ \E d \in BufIds : Destroy(d)

SpecSlice == SliceInit /\ [][SliceNext]_vars

\* EscapeString / UnescapeString, applied to strings with and without zero
\* bytes and to the strings they return
EscInit == BufInit

EscNext ==
    \/ \E str \in CoreTexts : EscapeString(str)
    \/ \E str \in CoreTexts \cup {text.ret} : UnescapeString(str)

SpecEsc == EscInit /\ [][EscNext]_vars

\* A BinaryView subclass that overrides no hook; the hooks are called with
\* buffers of up to MaxIOLen bytes at the offsets the reader and writer use.
HookData == StringsUpTo(InBytes, MaxIOLen)

HookInit == RefQuiet /\ ThrQuiet /\ BufQuiet /\ IoQuiet

HookNext ==
    \/ \E dest \in HookData : \E offset \in Offsets : PerformRead(dest, offset)
    \/ \E data \in HookData : \E offset \in Offsets : PerformWrite(offset, data)
    \/ \E data \in HookData : \E offset \in Offsets : PerformInsert(offset, data)
    \/ \E offset \in Offsets : \E len \in 0 .. MaxIOLen : PerformRemove(offset, len)
    \/ \E offset \in Offsets : PerformGetModification(offset)
    \/ PerformGetStart
    \/ PerformGetLength
    \/ PerformGetEntryPoint
    \/ PerformIsExecutable
    \/ \E file \in 0 .. 1 : PerformSave(file)

SpecHooks == HookInit /\ [][HookNext]_vars

\* ZlibCompress and ZlibDecompress on DataBuffers that hold plain bytes or
\* a zlib stream
ZlibData == UserData \cup {ZDeflate(u) : u \in StringsUpTo(InBytes, 1)}

ZlibInit ==
    /\ RefQuiet /\ ThrQuiet /\ IoQuiet
    /\ hstate = [h \in Handles |-> IF h <= NBufs THEN "live" ELSE "unalloc"]
    /\ \E contents \in [BufIds -> ZlibData] :
          hdata = [h \in Handles |-> IF h <= NBufs THEN contents[h] ELSE <<>>]
    /\ frees = [h \in Handles |-> 0]
    /\ m_buffer = [d \in BufIds |-> d]
    /\ crashed = FALSE
    /\ uaf = FALSE
    /\ last = Call("", 0, 0, FALSE, NULL, NULL)
    /\ copied = FALSE
    /\ text = StrCall("", <<>>, <<>>)
    /\ hcap = MaxHandles /\ lcap = MaxData

ZlibNext ==
    \/ \E a \in BufIds : \E out \in BufIds : \E fail \in BOOLEAN :
          ZlibCompress(a, out, fail)
    \/ \E a \in BufIds : \E out \in BufIds : ZlibDecompress(a, out)

SpecZlib == ZlibInit /\ [][ZlibNext]_vars

\* BinaryReader and BinaryWriter
IOInit ==
    /\ RefQuiet /\ ThrQuiet /\ BufQuiet
    /\ view \in StringsOfLen(InBytes, ViewLen)
    /\ rpos = 0
    /\ wpos = 0
    /\ ioLast = IOCall("", 0, FALSE, "", <<>>)
    /\ bview = HookCall(NewBinaryView, "", 0, <<>>, NoHook)

IONext ==
    \/ \E o \in Offsets : ReaderSeek(o)
    \/ \E delta \in -1 .. 1 : ReaderSeekRelative(delta)
    \/ \E n \in IOLens : TryRead(n)
    \/ \E n \in IOLens : Read(n)
    \/ \E o \in Offsets : WriterSeek(o)
    \/ \E delta \in -1 .. 1 : WriterSeekRelative(delta)
    \/ \E n \in IOLens : \E bytes \in StringsOfLen(InBytes, n) : TryWrite(bytes)
    \/ \E n \in IOLens : \E bytes \in StringsOfLen(InBytes, n) : Write(bytes)

SpecIO == IOInit /\ [][IONext]_vars

(***************************************************************************)
(* Properties of Ref<T> and RefCountObject.                                *)
(***************************************************************************)

\* C1 (SpecRef): for objects managed only through Ref<T>, the m_refs of
\* every live object equals the number of live Ref instances whose stored
\* pointer is that object.
C1_CountEqualsRefs ==
    \A o \in Objs :
        objState[o] = "live" => m_refs[o] = Cardinality(RefsTo(o))

\* Two Refs share one object after another object has been released.
C1_Witness ==
    \E o \in Objs : \E q \in Objs :
        /\ objState[o] = "live" /\ m_refs[o] = 2 /\ Cardinality(RefsTo(o)) = 2
        /\ objState[q] = "deleted"

\* C2 (SpecRef): no object is deleted while a live Ref points to it: the
\* stored pointer of every live non-null Ref is an object that has not been
\* deleted.
C2_NoRefToDeleted ==
    \A r \in RefIds :
        m_obj[r] \notin {NoRef, NULL} => objState[m_obj[r]] = "live"

\* One of two Refs to an object is gone, the other still holds it, and
\* another object has been deleted meanwhile.
C2_Witness ==
    \E r \in RefIds : \E q \in Objs :
        /\ m_obj[r] \notin {NoRef, NULL}
        /\ m_refs[m_obj[r]] = 1
        /\ Cardinality(LiveRefs) = 1
        /\ objState[q] = "deleted"

\* C3 (SpecRef): an object that a Ref has held is deleted exactly once, in
\* the very operation that removes the last Ref pointing to it: it is not
\* leaked once no Ref points to it, it is deleted only by a step that takes
\* the last Ref away, and it is never deleted again.
C3_DeletedOnceWithLastRef ==
    [][\A o \in Objs :
          /\ deletes'[o] <= 1
          /\ (everHeld'[o] /\ RefsTo(o)' = {})
                => (objState'[o] = "deleted" /\ deletes'[o] = 1)
          /\ (objState[o] = "live" /\ objState'[o] = "deleted")
                => (RefsTo(o) # {} /\ RefsTo(o)' = {})
          /\ objState[o] = "deleted"
                => (objState'[o] = "deleted" /\ deletes'[o] = deletes[o])]_vars

\* An object has been deleted, once, and no Ref points to it, while a Ref
\* to another object lives on.
C3_Witness ==
    \E o \in Objs : \E q \in Objs :
        /\ everHeld[o] /\ objState[o] = "deleted" /\ deletes[o] = 1
        /\ RefsTo(o) = {}
        /\ objState[q] = "live" /\ RefsTo(q) # {}

\* The Refs of all threads: (t, i) is the i-th Ref of thread t
ThreadRefs == {ti \in Threads \X (1 .. (1 + MaxExtraRefs)) : ti[2] <= trefs[ti[1]]}
ThreadsAt(pc) == {t \in Threads : tpc[t] = pc}

\* C4 (SpecThreads): threads that copy and destroy their own Refs to one
\* object lose no AddRef or Release under any interleaving.  The count is
\* at every moment the number of Refs less those whose AddRef is still to
\* come and those whose Release has already decremented; when all threads
\* are at rest it is the number of Refs alive; the object is deleted by
\* exactly one thread, once, and only when no other thread has a decrement
\* or increment of it still to do; no thread touches the count of the
\* deleted object.  A thread whose decrement is done may still be inside
\* Release, before its comparison, when another thread deletes the object.
C4_NoLostUpdate ==
    LET n == Cardinality(ThreadRefs)
    IN  /\ ~staleAccess
        /\ deletes[Shared] <= 1
        /\ m_refs[Shared] = n - Cardinality(ThreadsAt("addref"))
                               - Cardinality(ThreadsAt("test"))
        /\ (\A t \in Threads : tpc[t] = "idle") =>
              IF n > 0
              THEN objState[Shared] = "live" /\ m_refs[Shared] = n
              ELSE /\ objState[Shared] = "deleted"
                   /\ deletes[Shared] = 1
                   /\ deleter[Shared] \in Threads
        /\ objState[Shared] = "deleted" =>
              /\ m_refs[Shared] = 0
              /\ \A t \in Threads : tpc[t] \notin {"addref", "release"}
              /\ \A t \in Threads :
                    tpc[t] = "test" => (t # deleter[Shared] /\ told[t] # 1)

\* The object has been deleted by one thread while another thread, whose
\* decrement came first, has not yet left Release.
C4_Witness ==
    /\ objState[Shared] = "deleted"
    /\ \E t \in Threads : tpc[t] = "test" /\ told[t] >= 2 /\ deleter[Shared] # t

\* C4, the claim as stated: no update is lost, at rest the count is the number
\* of Refs alive, one thread deletes, and when the object is deleted every
\* other thread's Release on it has completed: no thread is inside Release.
C4_DeletedAfterReleases ==
    /\ ~staleAccess
    /\ deletes[Shared] <= 1
    /\ (\A t \in Threads : tpc[t] = "idle") =>
          IF Cardinality(ThreadRefs) > 0
          THEN objState[Shared] = "live" /\ m_refs[Shared] = Cardinality(ThreadRefs)
          ELSE objState[Shared] = "deleted" /\ deletes[Shared] = 1
    /\ objState[Shared] = "deleted" =>
          \A t \in Threads : tpc[t] \notin {"release", "test"}

(***************************************************************************)
(* Properties of DataBuffer.                                               *)
(***************************************************************************)
Modifiers == {"SetSize", "Clear", "Append", "Append(buf)", "AppendByte"}

Untouched(e) ==
    /\ m_buffer'[e] = m_buffer[e]
    /\ hstate'[m_buffer[e]] = "live"
    /\ hdata'[m_buffer[e]] = hdata[m_buffer[e]]

\* C5 (SpecValue): DataBuffer is a value type.  After DataBuffer b(a) or
\* b = a between two distinct DataBuffers, b has the length and the bytes
\* of a and another core handle than a or any other DataBuffer, and a is
\* as it was; and a SetSize, Clear, Append or AppendByte changes the bytes
\* of one DataBuffer only and the handle of none.
C5_CopyIsIndependent ==
    [][/\ (last'.op \in {"DataBuffer(buf)", "operator="} /\ last'.recv # last'.out
            /\ ~crashed') =>
            LET b == last'.recv
                a == last'.out
            IN  /\ m_buffer'[b] # NoBuf
                /\ \A e \in BufIds \ {b} : m_buffer'[e] # m_buffer'[b]
                /\ hstate'[m_buffer'[b]] = "live"
                /\ hdata'[m_buffer'[b]] = hdata[m_buffer[a]]
                /\ Untouched(a)
       /\ last'.op \in Modifiers =>
            /\ \A e \in LiveBufs : m_buffer'[e] = m_buffer[e] /\ hstate'[m_buffer[e]] = "live"
            /\ \A d \in LiveBufs : \A e \in LiveBufs \ {d} :
                  hdata'[m_buffer[d]] # hdata[m_buffer[d]] => Untouched(e)]_vars

\* After a copy, a byte has been appended to one of two DataBuffers, which
\* now differ in length.
C5_Witness ==
    /\ copied /\ ~crashed
    /\ last.op = "AppendByte"
    /\ \E d \in LiveBufs : \E e \in LiveBufs :
          /\ m_buffer[d] # m_buffer[e]
          /\ Len(hdata[m_buffer[d]]) # Len(hdata[m_buffer[e]])

\* C6 (SpecBuf), the claim as stated: over any sequence of DataBuffer
\* operations every core handle is passed to BNFreeDataBuffer at most
\* once, no live DataBuffer holds a freed handle as m_buffer, no member
\* function reads the m_buffer of a live DataBuffer after its handle has
\* been freed, and once every DataBuffer is destroyed no handle is left
\* unfreed.
C6_HandlesFreedOnce ==
    /\ \A h \in Handles : frees[h] <= 1 /\ (hstate[h] = "freed" <=> frees[h] = 1)
    /\ \A d \in LiveBufs : hstate[m_buffer[d]] = "live"
    /\ ~uaf
    /\ LiveBufs = {} => \A h \in Handles : hstate[h] # "live"

\* C7 (SpecBuf), the claim as stated: when a.ZlibCompress(output) returns
\* true, output holds the compressed form of the bytes of a, whatever
\* output held before, and a (when it is not output) is unchanged.
C7_CompressesReceiver ==
    [][(last'.op = "ZlibCompress" /\ last'.ret) =>
          /\ hdata'[m_buffer'[last'.out]] = ZDeflate(hdata[m_buffer[last'.recv]])
          /\ last'.recv # last'.out =>
                /\ m_buffer'[last'.recv] = m_buffer[last'.recv]
                /\ hdata'[m_buffer[last'.recv]] = hdata[m_buffer[last'.recv]]]_vars

\* C8 (SpecBuf), the claim as stated: if a.ZlibCompress(c) returns true,
\* the c.ZlibDecompress(d) that follows returns true and d has the length
\* and the bytes of a.
C8_CompressRoundTrip ==
    [][(/\ last.op = "ZlibCompress" /\ last.ret /\ last.recv # last.out
        /\ last'.op = "ZlibDecompress" /\ last'.recv = last.out) =>
          /\ last'.ret
          /\ hdata'[m_buffer'[last'.out]] = hdata[m_buffer[last.recv]]]_vars

\* C9 (SpecZlib): when the core returns no buffer, ZlibCompress and
\* ZlibDecompress return false and leave the output and the receiver as
\* they are (handle, length, bytes); when the core returns a buffer they
\* return true and the handle output held before is freed.
C9_ZlibNullLeavesOutput ==
    [][last'.op \in {"ZlibCompress", "ZlibDecompress"} =>
          IF last'.core = NULL
          THEN /\ ~last'.ret
               /\ UNCHANGED <<hstate, hdata, frees, m_buffer>>
          ELSE /\ last'.ret
               /\ last'.oldh = m_buffer[last'.out]
               /\ hstate'[last'.oldh] = "freed"
               /\ frees'[last'.oldh] = frees[last'.oldh] + 1
               /\ m_buffer'[last'.out] # last'.oldh
               /\ hstate'[m_buffer'[last'.out]] = "live"]_vars

\* After a call that got a buffer from the core and freed the output's old
\* handle, a call got none and returned false.
C9_Witness ==
    /\ last.op \in {"ZlibCompress", "ZlibDecompress"}
    /\ last.core = NULL /\ ~last.ret
    /\ \E h \in Handles : frees[h] = 1

(***************************************************************************)
(* Properties of BinaryReader and BinaryWriter.                            *)
(***************************************************************************)

\* C10 (SpecIO): a read or write of len bytes at a cursor where the view
\* cannot supply or take len bytes fails and transfers nothing: TryRead
\* and TryWrite return false and throw nothing, Read throws ReadException
\* ("read out of bounds"), Write throws WriteException ("write out of
\* bounds"), and the bytes of the view are as before.
C10_OutOfBoundsFails ==
    [][/\ (ioLast'.op \in {"TryRead", "Read"} /\ rpos + ioLast'.len > Len(view)) =>
            /\ ~ioLast'.ok
            /\ ioLast'.data = <<>>
            /\ view' = view
            /\ ioLast'.what =
                  IF ioLast'.op = "Read" THEN "read out of bounds" ELSE ""
       /\ (ioLast'.op \in {"TryWrite", "Write"} /\ wpos + ioLast'.len > Len(view)) =>
            /\ ~ioLast'.ok
            /\ view' = view
            /\ ioLast'.what =
                  IF ioLast'.op = "Write" THEN "write out of bounds" ELSE ""]_vars

\* A Read of two bytes with one byte left before the end of the view has
\* thrown.
C10_Witness ==
    /\ ioLast.op = "Read" /\ ioLast.len = 2
    /\ rpos = Len(view) - 1
    /\ ~ioLast.ok /\ ioLast.what = "read out of bounds"

\* C11 (SpecIO): the reader and the writer are sequential cursors.  After
\* Seek(o) the offset is o; after SeekRelative(d) it is the offset before
\* plus d; a successful read or write of n bytes advances the offset by
\* exactly n, the read returning the n bytes of the view that start at the
\* offset before and the write changing no byte outside that range; and
\* two reads in a row return two adjoining ranges of the view.
C11_SequentialCursor ==
    [][/\ ioLast'.op = "Reader.Seek" => rpos' = ioLast'.arg
       /\ ioLast'.op = "Writer.Seek" => wpos' = ioLast'.arg
       /\ ioLast'.op = "Reader.SeekRelative" => rpos' = rpos + ioLast'.arg
       /\ ioLast'.op = "Writer.SeekRelative" => wpos' = wpos + ioLast'.arg
       /\ (ioLast'.op \in {"TryRead", "Read"} /\ ioLast'.ok) =>
            /\ rpos' = rpos + ioLast'.len
            /\ ioLast'.data = SubSeq(view, rpos + 1, rpos + ioLast'.len)
            /\ (ioLast.op \in {"TryRead", "Read"} /\ ioLast.ok) =>
                  ioLast.data \o ioLast'.data =
                      SubSeq(view, rpos - ioLast.len + 1, rpos + ioLast'.len)
       /\ (ioLast'.op \in {"TryWrite", "Write"} /\ ioLast'.ok) =>
            /\ wpos' = wpos + ioLast'.len
            /\ \A i \in 1 .. Len(view) :
                  (i <= wpos \/ i > wpos + ioLast'.len) => view'[i] = view[i]]_vars

\* A successful read of one byte has moved the reader from offset 1 to
\* offset 2 and returned the second byte of the view.
C11_Witness ==
    /\ ioLast.op \in {"TryRead", "Read"} /\ ioLast.ok /\ ioLast.len = 1
    /\ rpos = 2
    /\ ioLast.data = SubSeq(view, 2, 2)

(***************************************************************************)
(* Properties of single Ref<T> operations.                                 *)
(***************************************************************************)
Assignments == {"operator=(Ref&)", "operator=(T*)"}

\* C12 (SpecRef): for a Ref r that is the only Ref to its object, r = r and
\* r = r.GetPtr() leave the object alive with count 1 and r pointing to it,
\* and the count is not 0 and the object not deleted at any point of the
\* assignment: before it, between its AddRef and its Release, and after it.
C12_SelfAssignSafe ==
    [][(/\ refLast'.op \in Assignments
        /\ refLast'.p # NULL /\ refLast'.p = refLast'.oldObj
        /\ m_refs[refLast'.p] = 1) =>
          LET r == refLast'.r
              o == refLast'.p
              steps == AssignSteps(Heap, o, o)
          IN  /\ m_obj[r] = o /\ m_obj'[r] = o
              /\ objState'[o] = "live" /\ m_refs'[o] = 1
              /\ deletes'[o] = 0
              /\ \A i \in 1 .. 3 :
                    steps[i].st[o] = "live" /\ steps[i].refs[o] >= 1]_vars

\* A Ref that alone holds its object has been assigned to itself.
C12_Witness ==
    /\ refLast.op \in Assignments
    /\ refLast.p # NULL /\ refLast.p = refLast.oldObj
    /\ m_obj[refLast.r] = refLast.p
    /\ Cardinality(RefsTo(refLast.p)) = 1
    /\ m_refs[refLast.p] = 1

\* C13 (SpecRef): an assignment a = b, b a Ref or a T*, to another object
\* than a holds has this effect and no other: a stores b's pointer; the
\* count of the new object, if there is one, is one higher; the count of
\* the object a held before, if there was one, is one lower, and that
\* object is deleted exactly if its count is now 0; the count and the
\* state of every other object and the pointer of every other Ref, b too,
\* are as before.
C13_AssignFrame ==
    [][(refLast'.op \in Assignments /\ refLast'.p # refLast'.oldObj) =>
          LET a == refLast'.r
              new == refLast'.p
              old == refLast'.oldObj
          IN  /\ m_obj[a] = old /\ m_obj'[a] = new
              /\ new # NULL =>
                    /\ m_refs'[new] = m_refs[new] + 1
                    /\ objState'[new] = "live" /\ deletes'[new] = deletes[new]
              /\ old # NULL =>
                    /\ m_refs'[old] = m_refs[old] - 1
                    /\ IF m_refs'[old] = 0
                       THEN objState'[old] = "deleted" /\ deletes'[old] = deletes[old] + 1
                       ELSE objState'[old] = "live" /\ deletes'[old] = deletes[old]
              /\ \A q \in Objs \ {new, old} :
                    /\ m_refs'[q] = m_refs[q]
                    /\ objState'[q] = objState[q]
                    /\ deletes'[q] = deletes[q]
              /\ \A s \in RefIds \ {a} : m_obj'[s] = m_obj[s]]_vars

\* A Ref has been assigned from another Ref: the object it held before is
\* deleted, the object it holds now has count 2, and a third object lives
\* untouched.
C13_Witness ==
    /\ refLast.op = "operator=(Ref&)"
    /\ refLast.p # NULL /\ refLast.oldObj # NULL /\ refLast.p # refLast.oldObj
    /\ objState[refLast.oldObj] = "deleted"
    /\ m_refs[refLast.p] = 2
    /\ \E q \in Objs \ {refLast.p, refLast.oldObj} : objState[q] = "live"

\* C14 (SpecObs): a newly constructed RefCountObject has count 0; the first
\* Ref constructed from its raw pointer makes the count 1; and when that
\* Ref, still the only one, is destroyed or assigned another pointer, the
\* object is deleted, whether or not the program still keeps a raw pointer
\* to it, which it keeps on holding.
C14_FirstRefOwns ==
    [][/\ refLast'.op = "new" =>
            /\ objState'[refLast'.p] = "live"
            /\ m_refs'[refLast'.p] = 0
       /\ (refLast'.op = "Ref(T*)" /\ refLast'.p # NULL /\ m_refs[refLast'.p] = 0) =>
            /\ m_refs'[refLast'.p] = 1
            /\ m_obj'[refLast'.r] = refLast'.p
       /\ \A o \in Objs :
            (/\ \/ refLast'.op = "~Ref"
                \/ refLast'.op \in Assignments /\ refLast'.p # o
             /\ m_obj[refLast'.r] = o /\ m_refs[o] = 1) =>
               /\ objState'[o] = "deleted"
               /\ deletes'[o] = 1
               /\ raw' = raw]_vars

\* The only Ref to an object has been destroyed and the object deleted
\* while the program keeps the raw pointer it got from an observer.
C14_Witness ==
    /\ refLast.op = "~Ref"
    /\ raw # NULL
    /\ objState[raw] = "deleted" /\ deletes[raw] = 1
    /\ RefsTo(raw) = {}

\* The calls that have no object to work on: construction from NULL or from
\* a null Ref, destruction of a null Ref, assignment of NULL or of a null
\* Ref to a null Ref
NullCalls ==
    /\ refLast'.op \in {"Ref(T*)", "Ref(Ref&)", "~Ref"} \cup Assignments
    /\ refLast'.p = NULL
    /\ refLast'.op \in {"~Ref"} \cup Assignments => m_obj[refLast'.r] = NULL

\* C15 (SpecObs): null Refs touch no count.  A default-constructed Ref is
\* null; the calls that have no object to work on change the count, the
\* state and the deletions of no object (an assignment not even between
\* its two steps) and leave the Ref null; NULL or a null Ref assigned to a
\* Ref that holds an object takes one from the count of that object, from
\* no other, and leaves the Ref null; operator! returns true exactly when
\* the Ref is null.
C15_NullRefs ==
    [][/\ refLast'.op = "Ref()" =>
            /\ m_obj'[refLast'.r] = NULL
            /\ UNCHANGED <<objState, m_refs, deletes>>
       /\ NullCalls =>
            /\ UNCHANGED <<objState, m_refs, deletes>>
            /\ refLast'.op # "~Ref" => m_obj'[refLast'.r] = NULL
            /\ refLast'.op \in Assignments =>
                  \A i \in 1 .. 3 : AssignSteps(Heap, NULL, NULL)[i] = Heap
       /\ (refLast'.op \in Assignments /\ refLast'.p = NULL
              /\ refLast'.oldObj # NULL) =>
            /\ m_obj'[refLast'.r] = NULL
            /\ \A q \in Objs :
                  m_refs'[q] = IF q = refLast'.oldObj THEN m_refs[q] - 1 ELSE m_refs[q]
            /\ \A q \in Objs : deletes'[q] <= 1
       /\ refLast'.op = "operator!" =>
            (refLast'.flag <=> m_obj[refLast'.r] = NULL)]_vars

\* NULL has been assigned to a Ref that held an object, which is deleted;
\* the Ref is null now.
C15_Witness ==
    /\ refLast.op = "operator=(T*)"
    /\ refLast.p = NULL /\ refLast.oldObj # NULL
    /\ m_obj[refLast.r] = NULL
    /\ objState[refLast.oldObj] = "deleted"

Observers == {"operator T*", "operator->", "operator*", "operator!", "GetPtr"}

\* C16 (SpecObs): the observers operator T*, operator->, operator*,
\* operator! and GetPtr return the stored pointer (operator* the object it
\* points to, operator! whether it is null) and change the stored pointer
\* of no Ref and the count, the state and the deletions of no object: all
\* that later operations read is as it was before the observer.
C16_ObserversPure ==
    [][refLast'.op \in Observers =>
          /\ UNCHANGED <<objState, m_refs, deletes, everHeld, m_obj>>
          /\ refLast'.op # "operator!" => refLast'.p = m_obj[refLast'.r]
          /\ refLast'.op = "operator*" => refLast'.p # NULL
          /\ refLast'.op = "operator!" =>
                (refLast'.flag <=> m_obj[refLast'.r] = NULL)]_vars

\* An observer has returned the pointer of a Ref that alone holds its
\* object, which lives on with count 1.
C16_Witness ==
    /\ refLast.op \in {"operator T*", "operator->", "operator*", "GetPtr"}
    /\ refLast.p # NULL /\ refLast.p = m_obj[refLast.r]
    /\ objState[refLast.p] = "live" /\ m_refs[refLast.p] = 1

\* C17 (SpecBuilds): the Release of the WIN32 build and the Release of the
\* other build are equivalent.  Given the same calls of AddRef and Release
\* the two builds have the same counts and the same objects deleted after
\* every call; a Release takes one from the count in both and deletes the
\* object in both exactly when the count goes from 1 to 0; a Release at
\* count 0 makes the count -1 and deletes in neither.
C17_BuildsAgree ==
    [][/\ win32' = Heap'
       /\ refLast'.op = "Release" =>
            LET o == refLast'.p
            IN  /\ m_refs'[o] = m_refs[o] - 1
                /\ win32'.refs[o] = win32.refs[o] - 1
                /\ objState'[o] = "deleted" <=> m_refs[o] = 1
                /\ win32'.st[o] = "deleted" <=> win32.refs[o] = 1
                /\ m_refs[o] = 0 =>
                      /\ m_refs'[o] = -1 /\ objState'[o] = "live"
                      /\ win32'.refs[o] = -1 /\ win32'.st[o] = "live"]_vars

\* One object has been released at count 0 and lives on with count -1 in
\* both builds; another has been released at count 1 and is deleted in
\* both.
C17_Witness ==
    \E o \in Objs : \E q \in Objs :
        /\ m_refs[o] = -1 /\ objState[o] = "live"
        /\ win32.refs[o] = -1 /\ win32.st[o] = "live"
        /\ objState[q] = "deleted" /\ win32.st[q] = "deleted"
        /\ deletes[q] = 1 /\ win32.del[q] = 1

(***************************************************************************)
(* Properties of single DataBuffer operations.                             *)
(***************************************************************************)

\* C18 (SpecBuf), the claim as stated: after b = b the DataBuffer has the
\* length and the bytes it had before and holds a live core handle, and no
\* core function has been called on a handle already passed to
\* BNFreeDataBuffer.
C18_SelfAssignKeepsValue ==
    [][(last'.op = "operator=" /\ last'.recv = last'.out /\ ~uaf) =>
          LET b == last'.recv
          IN  /\ ~uaf' /\ ~crashed'
              /\ m_buffer'[b] # NoBuf
              /\ hstate'[m_buffer'[b]] = "live"
              /\ hdata'[m_buffer'[b]] = hdata[m_buffer[b]]]_vars

LiveHandles == {h \in Handles : hstate[h] = "live"}

\* C19 (SpecCtor): construction gives the expected value.  DataBuffer() has
\* length 0; DataBuffer(len) has length len; DataBuffer(data, len) has
\* length len and the len bytes at data; DataBuffer(BNDataBuffer* h) holds
\* h itself, alive, so that GetBufferObject() returns h, and no handle but
\* h has come to be in the step.  The constructed DataBuffer shares its
\* handle with no other.
C19_ConstructedValue ==
    [][last'.op \in {"DataBuffer", "DataBuffer(len)", "DataBuffer(data,len)",
                     "DataBuffer(handle)"} =>
          LET d == last'.recv
              len == DataBuffer_GetLength(Mem', d)
              bytes == DataBuffer_Contents(Mem', d)
          IN  /\ m_buffer[d] = NoBuf /\ m_buffer'[d] # NoBuf
              /\ hstate'[m_buffer'[d]] = "live"
              /\ \A e \in BufIds \ {d} : m_buffer'[e] = m_buffer[e]
              /\ \A e \in BufIds \ {d} : m_buffer'[e] # m_buffer'[d]
              /\ LiveHandles' = LiveHandles \cup {m_buffer'[d]}
              /\ last'.op = "DataBuffer" => len = 0
              /\ last'.op = "DataBuffer(len)" => len = last'.len
              /\ last'.op = "DataBuffer(data,len)" =>
                    len = last'.len /\ bytes = last'.data
              /\ last'.op = "DataBuffer(handle)" =>
                    /\ DataBuffer_GetBufferObject(Mem', d) = last'.core
                    /\ hstate[last'.core] = "unalloc"]_vars

\* A DataBuffer has adopted a handle from the core while another
\* DataBuffer, constructed from data, holds one byte.
C19_Witness ==
    /\ last.op = "DataBuffer(handle)"
    /\ m_buffer[last.recv] = last.core
    /\ hstate[last.core] = "live"
    /\ \E e \in LiveBufs \ {last.recv} : Len(hdata[m_buffer[e]]) = 1

\* The reference byte sequence: what a modifier makes of the bytes old.
\* The bytes SetSize adds beyond the old length are those of the buffer.
Reference(op, old, len, data, other, now) ==
    CASE op = "Clear" -> <<>>
      [] op = "SetSize" ->
            IF len <= Len(old) THEN SubSeq(old, 1, len)
            ELSE old \o SubSeq(now, Len(old) + 1, Len(now))
      [] op = "Append" -> old \o data
      [] op = "Append(buf)" -> old \o other
      [] op = "AppendByte" -> old \o data

\* C20 (SpecMut): every SetSize, Clear, Append(data, len), Append(buf) and
\* AppendByte does to the DataBuffer what it does to a reference byte
\* sequence: Clear gives length 0, SetSize(n) gives length n and keeps the
\* first min(old, n) bytes, Append adds the given bytes at the end,
\* AppendByte(v) is Append of the one byte v; the handle stays the same.
\* By induction the same holds of any sequence of them.
C20_ModifiersFollowReference ==
    [][last'.op \in Modifiers =>
          LET d == last'.recv
              old == hdata[m_buffer[d]]
              now == DataBuffer_Contents(Mem', d)
              other == IF last'.op = "Append(buf)"
                       THEN hdata[m_buffer[last'.out]] ELSE <<>>
          IN  /\ m_buffer'[d] = m_buffer[d]
              /\ hstate'[m_buffer[d]] = "live"
              /\ now = Reference(last'.op, old, last'.len, last'.data, other, now)
              /\ DataBuffer_GetLength(Mem', d) = Len(now)
              /\ last'.op = "SetSize" => Len(now) = last'.len
              /\ last'.op = "AppendByte" =>
                    /\ Len(last'.data) = 1
                    /\ Len(now) = Len(old) + 1
                    /\ now[Len(now)] = last'.data[1]
                    /\ Mem' = DataBuffer_Append(Mem, d, last'.data)]_vars

\* AppendByte has made a DataBuffer two bytes long, the byte it was given
\* last, while another DataBuffer keeps its one byte.
C20_Witness ==
    /\ last.op = "AppendByte"
    /\ Len(hdata[m_buffer[last.recv]]) = 2
    /\ hdata[m_buffer[last.recv]][2] = last.data[1]
    /\ \E e \in LiveBufs \ {last.recv} : Len(hdata[m_buffer[e]]) = 1

\* C21 (SpecSlice): GetSlice(start, len) leaves the receiver's handle, length
\* and contents as they were and returns a DataBuffer with a live core handle
\* of its own, one that no other DataBuffer has and that was not live before
\* the call; and a later Clear, AppendByte or destruction of a slice or of
\* its receiver leaves every other DataBuffer's handle and contents alone.
C21_SliceIsIndependent ==
    [][/\ last'.op = "GetSlice" =>
            LET s == last'.recv
                d == last'.out
            IN  /\ \A e \in LiveBufs : Untouched(e)
                /\ s \in LiveBufs
                /\ m_buffer[d] = NoBuf /\ m_buffer'[d] # NoBuf
                /\ hstate[m_buffer'[d]] # "live"
                /\ hstate'[m_buffer'[d]] = "live"
                /\ \A e \in BufIds \ {d} : m_buffer'[e] # m_buffer'[d]
                /\ \E start \in 0 .. Len(hdata[m_buffer[s]]) :
                      \E n \in 0 .. (Len(hdata[m_buffer[s]]) - start) :
                         hdata'[m_buffer'[d]] =
                            SubSeq(hdata[m_buffer[s]], start + 1, start + n)
       /\ last'.op \in {"Clear", "AppendByte"} =>
            \A e \in LiveBufs \ {last'.recv} : Untouched(e)
       /\ last'.op = "~DataBuffer" =>
            \A e \in LiveBufs : m_buffer'[e] # NoBuf => Untouched(e)]_vars

\* A slice was taken and one of the pair was then destroyed; the other lives
\* and has bytes.
C21_Witness ==
    /\ last.op = "~DataBuffer"
    /\ \E e \in LiveBufs : Len(hdata[m_buffer[e]]) = MaxData + 1
    /\ \E h \in Handles : hstate[h] = "live" /\ h # 1

SizeHooks ==
    {"PerformRead", "PerformWrite", "PerformInsert", "PerformRemove",
     "PerformGetStart", "PerformGetLength", "PerformGetEntryPoint"}

\* C23 (SpecHooks): on a BinaryView that overrides no Perform* hook, every
\* hook leaves the object's members and the caller's buffer as they were;
\* PerformRead, PerformWrite, PerformInsert and PerformRemove return 0,
\* PerformGetModification returns Original at every offset, PerformGetStart,
\* PerformGetLength and PerformGetEntryPoint return 0, PerformIsExecutable
\* and PerformSave return false.
C23_DefaultHooks ==
    [][/\ bview'.self = bview.self
       /\ bview'.op \in {"PerformRead", "PerformWrite", "PerformInsert"} =>
             bview'.r.buf = bview'.arg
       /\ bview'.op \in SizeHooks => bview'.r.n = 0
       /\ bview'.op = "PerformGetModification" => bview'.r.status = "Original"
       /\ bview'.op \in {"PerformIsExecutable", "PerformSave"} =>
             bview'.r.flag = FALSE]_vars

\* PerformRead has been called at a non-zero offset with a full buffer that
\* holds non-zero bytes.
C23_Witness ==
    /\ bview.op = "PerformRead"
    /\ bview.offset > 0
    /\ Len(bview.arg) = MaxIOLen
    /\ \A i \in 1 .. MaxIOLen : bview.arg[i] # 0

====
